---- MODULE Spec2Model ----
(***************************************************************************)
(* A model of the counterexample search for 8n + 3 = a^2 + 2p              *)
(* (jhg023/8n3-prime-search): the per-n solver, the mod-30 wheel sieve,    *)
(* the batched verifier and its driver, the GPU driver and the threaded    *)
(* CPU range driver.                                                       *)
(*                                                                         *)
(* uint64_t arithmetic is modelled with a word of WordBits bits: every     *)
(* uint64_t operation of the solver and of the batched verifier is taken   *)
(* modulo W = 2^WordBits, so the valid range of n is 1 <= n < W/8 as it is *)
(* 1 <= n < 2^61 in the program.  The sieve's own arithmetic is over the   *)
(* naturals: a threshold near 2^64 cannot be allocated.                    *)
(***************************************************************************)
EXTENDS Integers, Sequences, FiniteSets, TLC

VARIABLES sv, ps, bs, gpu, cpu

vars == <<sv, ps, bs, gpu, cpu>>

(***************************************************************************)
(* Bounds of the model.                                                    *)
(***************************************************************************)
\* width of the machine word that stands for uint64_t
WordBits == 10
\* a floating-point seed of isqrt64 is within SeedErr of the true root
SeedErr == 1
\* the wheel sieve is built for every threshold up to MaxThreshold
MaxThreshold == 150
\* a threshold large enough for the sequential small-prime sieve to strike
LargeThreshold == 2400
\* bytes of the bitmap per segment (SIEVE_SEGMENT_BYTES, scaled)
SegmentBytes == 2

W == 2 ^ WordBits

Add(x, y) == (x + y) % W
Sub(x, y) == (x - y + W) % W
Mul(x, y) == (x * y) % W

\* the value the model gives a call that never returns
Diverges == 0 - 1

(***************************************************************************)
(* Primality, as mathematics: the reference the claims are stated against. *)
(***************************************************************************)
RECURSIVE NoDivisorFrom(_, _)
NoDivisorFrom(n, d) ==
    IF d * d > n THEN TRUE
    ELSE IF n % d = 0 THEN FALSE
    ELSE NoDivisorFrom(n, d + 1)

IsPrime(n) == n >= 2 /\ NoDivisorFrom(n, 2)

RECURSIVE SqrtFrom(_, _)
SqrtFrom(n, r) == IF (r + 1) * (r + 1) > n THEN r ELSE SqrtFrom(n, r + 1)

\* floor of the real square root: what sqrt/sqrtl return, truncated
SqrtFloor(n) == SqrtFrom(n, 0)

(***************************************************************************)
(* arith.h                                                                 *)
(***************************************************************************)
RECURSIVE isqrt64_down(_, _)
isqrt64_down(x, n) ==
    IF x > 0 /\ Mul(x, x) > n THEN isqrt64_down(x - 1, n) ELSE x

\* "while ((x + 1) * (x + 1) <= n) x++;" leaves at the first x, counting
\* up from its entry value and wrapping, whose successor's square exceeds
\* n; after W increments x is back at the entry value, so a loop that has
\* not left by then never does.
isqrt64_up_exit(x, n, k) ==
    Mul(Add(Add(x, k), 1), Add(Add(x, k), 1)) > n

isqrt64_up(x, n) ==
    IF \A k \in 0..(W - 1) : ~isqrt64_up_exit(x, n, k) THEN Diverges
    ELSE Add(x, CHOOSE k \in 0..(W - 1) :
                    /\ isqrt64_up_exit(x, n, k)
                    /\ \A j \in 0..(k - 1) : ~isqrt64_up_exit(x, n, j))

\* isqrt64 with the truncated floating-point seed given
isqrt64_seeded(n, seed) ==
    IF n = 0 THEN 0 ELSE isqrt64_up(isqrt64_down(seed, n), n)

\* the seeds (uint64_t)sqrtl((long double)n) may produce
Seeds(n) == {s \in (SqrtFloor(n) - SeedErr)..(SqrtFloor(n) + SeedErr) :
                s >= 0 /\ s < W}

\* isqrt64 where the seed is exact (an 80-bit long double, or a small n)
isqrt64(n) == isqrt64_seeded(n, SqrtFloor(n))

(***************************************************************************)
(* prime.h: the oracle.  The witness table fj64_table.h is not part of the *)
(* sources; the oracle is taken to be exact, as its contract states.       *)
(***************************************************************************)
is_prime_fj64_fast(n) == IsPrime(n)

is_prime_64(n) ==
    IF n < 2 THEN FALSE
    ELSE IF n = 2 \/ n = 3 THEN TRUE
    ELSE IF n % 2 = 0 THEN FALSE
    ELSE IF n % 3 = 0 THEN n = 3
    ELSE IF n % 5 = 0 THEN n = 5
    ELSE IF n % 7 = 0 THEN n = 7
    ELSE IF n < 121 THEN TRUE
    ELSE is_prime_fj64_fast(n)

TRIAL_PRIMES ==
    << 3, 5, 7, 11, 13, 17, 19, 23, 29, 31,
       37, 41, 43, 47, 53, 59, 61, 67, 71, 73,
       79, 83, 89, 97, 101, 103, 107, 109, 113, 127,
       131, 137, 139, 149, 151, 157, 163, 167, 173, 179,
       181, 191, 193, 197, 199, 211, 223, 227, 229, 233,
       239, 241, 251, 257, 263, 269, 271, 277, 281, 283,
       293, 307, 311, 313, 317, 331, 337, 347, 349, 353,
       359, 367, 373, 379, 383, 389, 397, 401, 409, 419,
       421, 431, 433, 439, 443, 449, 457, 461, 463, 467,
       479, 487, 491, 499, 503, 509, 521, 523, 541, 547,
       557, 563, 569, 571, 577, 587, 593, 599, 601, 607,
       613, 617, 619, 631, 641, 643, 647, 653, 659, 661 >>

NUM_TRIAL_PRIMES == 120

\* the table of trial_division_check_local
PRIMES ==
    << 3, 5, 7, 11, 13, 17, 19, 23, 29, 31,
       37, 41, 43, 47, 53, 59, 61, 67, 71, 73,
       79, 83, 89, 97, 101, 103, 107, 109, 113, 127 >>

NUM_PRIMES_LOCAL == 30

(***************************************************************************)
(* Trial division: 7 inlined tests, a 4x unrolled loop, a remainder loop.  *)
(* Tables are indexed from 0 in the program and from 1 here.               *)
(***************************************************************************)
\* one "if (candidate % q == 0) return (candidate == q) ? 1 : 0;"
\* 2 stands for "fall through to the next test"
td_test(candidate, q) ==
    IF candidate % q = 0 THEN (IF candidate = q THEN 1 ELSE 0) ELSE 2

RECURSIVE td_inline(_, _, _)
td_inline(candidate, table, i) ==
    IF i >= 7 THEN 2
    ELSE IF td_test(candidate, table[i + 1]) # 2
         THEN td_test(candidate, table[i + 1])
         ELSE td_inline(candidate, table, i + 1)

RECURSIVE td_remainder(_, _, _, _)
td_remainder(candidate, table, num, i) ==
    IF i < num
    THEN IF td_test(candidate, table[i + 1]) # 2
         THEN td_test(candidate, table[i + 1])
         ELSE td_remainder(candidate, table, num, i + 1)
    ELSE 2

RECURSIVE td_unrolled(_, _, _, _)
td_unrolled(candidate, table, num, i) ==
    IF i + 3 < num
    THEN IF td_test(candidate, table[i + 1]) # 2
              THEN td_test(candidate, table[i + 1])
         ELSE IF td_test(candidate, table[i + 2]) # 2
              THEN td_test(candidate, table[i + 2])
         ELSE IF td_test(candidate, table[i + 3]) # 2
              THEN td_test(candidate, table[i + 3])
         ELSE IF td_test(candidate, table[i + 4]) # 2
              THEN td_test(candidate, table[i + 4])
         ELSE td_unrolled(candidate, table, num, i + 4)
    ELSE td_remainder(candidate, table, num, i)

td_check(candidate, table, num) ==
    IF td_inline(candidate, table, 0) # 2
    THEN td_inline(candidate, table, 0)
    ELSE td_unrolled(candidate, table, num, 7)

trial_division_check(candidate) ==
    td_check(candidate, TRIAL_PRIMES, NUM_TRIAL_PRIMES)

trial_division_check_local(candidate) ==
    td_check(candidate, PRIMES, NUM_PRIMES_LOCAL)

is_candidate_prime(candidate) ==
    LET td == trial_division_check(candidate)
    IN  IF td = 0 THEN FALSE
        ELSE IF td = 1 THEN TRUE
        ELSE IF candidate <= 127 THEN TRUE
        ELSE is_prime_fj64_fast(candidate)

is_candidate_prime_local(candidate) ==
    LET td == trial_division_check_local(candidate)
    IN  IF td = 0 THEN FALSE
        ELSE IF td = 1 THEN TRUE
        ELSE IF candidate <= 127 THEN TRUE
        ELSE is_prime_fj64_fast(candidate)

(***************************************************************************)
(* prime_sieve_fast.h: the mod-30 wheel sieve.  A bitmap is the set of the *)
(* indices of its set bits (a set bit means "prime").                      *)
(***************************************************************************)
wheel30_residues == <<1, 7, 11, 13, 17, 19, 23, 29>>

\* 255 is 0xFF: not coprime to 30
wheel30_index(r) ==
    CASE r = 1 -> 0 [] r = 7 -> 1 [] r = 11 -> 2 [] r = 13 -> 3
      [] r = 17 -> 4 [] r = 19 -> 5 [] r = 23 -> 6 [] r = 29 -> 7
      [] OTHER -> 255

wheel30_is_coprime(n) == wheel30_index(n % 30) # 255

wheel30_bit_index(n) == (n \div 30) * 8 + wheel30_index(n % 30)

wheel30_get_bit(bitmap, bit_idx) == bit_idx \in bitmap

wheel30_clear_bit(bitmap, bit_idx) == bitmap \ {bit_idx}

\* memset(bitmap, 0xFF, num_bytes)
AllBits(num_bytes) == 0..(num_bytes * 8 - 1)

\* the field values sieve_create computes from the threshold
sieve_threshold_of(threshold) == IF threshold < 2 THEN 2 ELSE threshold

sieve_num_bytes(threshold) == sieve_threshold_of(threshold) \div 30 + 1

sieve_sqrt_thresh(threshold) == SqrtFloor(sieve_threshold_of(threshold)) + 1

\* step 1: the sequential sieve for the sieving primes
RECURSIVE small_sieve_strike(_, _, _, _)
small_sieve_strike(small, m, p, sqrt_thresh) ==
    IF m > sqrt_thresh THEN small
    ELSE small_sieve_strike(
             IF wheel30_is_coprime(m)
             THEN wheel30_clear_bit(small, wheel30_bit_index(m)) ELSE small,
             m + 2 * p, p, sqrt_thresh)

RECURSIVE small_sieve_loop(_, _, _, _)
small_sieve_loop(small, p, sqrt_small, sqrt_thresh) ==
    IF p > sqrt_small THEN small
    ELSE small_sieve_loop(
             IF wheel30_is_coprime(p)
                /\ wheel30_get_bit(small, wheel30_bit_index(p))
             THEN small_sieve_strike(small, p * p, p, sqrt_thresh)
             ELSE small,
             p + 2, sqrt_small, sqrt_thresh)

small_sieve(threshold) ==
    LET sqrt_thresh == sieve_sqrt_thresh(threshold)
        small_bytes == sqrt_thresh \div 30 + 1
        sqrt_small  == SqrtFloor(sqrt_thresh) + 1
    IN  small_sieve_loop(AllBits(small_bytes), 7, sqrt_small, sqrt_thresh)

\* the loop over block and i that fills sieving_primes[], k = block * 8 + i
RECURSIVE collect_sieving_primes(_, _, _, _)
collect_sieving_primes(small, k, sqrt_thresh, acc) ==
    IF k \div 8 > sqrt_thresh \div 30 THEN acc
    ELSE LET p == (k \div 8) * 30 + wheel30_residues[(k % 8) + 1]
         IN  collect_sieving_primes(small, k + 1, sqrt_thresh,
                 IF p <= 5 \/ p > sqrt_thresh THEN acc
                 ELSE IF wheel30_get_bit(small, k) THEN Append(acc, p)
                 ELSE acc)

sieving_primes_of(threshold) ==
    collect_sieving_primes(small_sieve(threshold), 0,
                           sieve_sqrt_thresh(threshold), <<>>)

sieve_num_segments(threshold) ==
    (sieve_num_bytes(threshold) + SegmentBytes - 1) \div SegmentBytes

\* segment_strike with "byte_idx > byte_start" for "byte_idx >= byte_start"
segment_strike_skips_first_byte(p, start, n_end, threshold, byte_start, byte_end) ==
    LET limit == IF n_end < threshold THEN n_end ELSE threshold
        ms    == {start + j * p : j \in 0..((limit - start) \div p)}
    IN  {wheel30_bit_index(m) :
            m \in {mm \in ms : /\ wheel30_is_coprime(mm)
                               /\ wheel30_bit_index(mm) \div 8 > byte_start
                               /\ wheel30_bit_index(mm) \div 8 < byte_end}}

\* step 2: "for (m = start; m <= n_end && m <= threshold; m += p)": the
\* bits the loop clears
segment_strike(p, start, n_end, threshold, byte_start, byte_end) ==
    LET limit == IF n_end < threshold THEN n_end ELSE threshold
        ms    == {start + j * p : j \in 0..((limit - start) \div p)}
    IN  {wheel30_bit_index(m) :
            m \in {mm \in ms : /\ wheel30_is_coprime(mm)
                               /\ wheel30_bit_index(mm) \div 8 >= byte_start
                               /\ wheel30_bit_index(mm) \div 8 < byte_end}}

\* "Find first multiple of p >= max(p*p, n_start)"
segment_start(p, n_start) ==
    IF p * p < n_start THEN ((n_start + p - 1) \div p) * p ELSE p * p

\* the loop over the sieving primes, left at the first p with p*p > n_end:
\* the bits it clears
segment_primes(primes, n_start, n_end, threshold, byte_start, byte_end) ==
    UNION {segment_strike(primes[i], segment_start(primes[i], n_start),
                          n_end, threshold, byte_start, byte_end) :
             i \in {k \in 1..Len(primes) :
                      \A j \in 1..k : primes[j] * primes[j] <= n_end}}

\* the bits the body of the segment loop clears for one seg
segment_clears(seg, thr, primes) ==
    LET threshold  == sieve_threshold_of(thr)
        num_bytes  == sieve_num_bytes(thr)
        byte_start == seg * SegmentBytes
        byte_end   == IF byte_start + SegmentBytes > num_bytes
                      THEN num_bytes ELSE byte_start + SegmentBytes
        n_start    == byte_start * 30
        n_end0     == ((byte_end * 8) \div 8 + 1) * 30
        n_end      == IF n_end0 > threshold THEN threshold ELSE n_end0
    IN  segment_primes(primes, n_start, n_end, threshold, byte_start, byte_end)

\* the body of the segment loop for one seg
sieve_segment(bitmap, seg, thr, primes) ==
    bitmap \ segment_clears(seg, thr, primes)

\* the segment loop: every segment's bits cleared (clearing a bit reads no
\* other bit, so the order of the segments does not enter)
sieve_all_segments(bitmap, thr, primes) ==
    bitmap \ UNION {segment_clears(seg, thr, primes) :
                      seg \in 0..(sieve_num_segments(thr) - 1)}

\* the NULL pointer
NoSieve == [threshold |-> -1, bitmap |-> {}]

\* sieve_create when every allocation succeeds, segments taken in order
sieve_create(thr) ==
    [threshold |-> sieve_threshold_of(thr),
     bitmap    |-> sieve_all_segments(AllBits(sieve_num_bytes(thr)), thr,
                                      sieving_primes_of(thr))]

sieve_is_prime(sieve, n) ==
    IF n > sieve.threshold THEN FALSE
    ELSE IF n < 2 THEN FALSE
    ELSE IF n = 2 \/ n = 3 \/ n = 5 THEN TRUE
    ELSE IF n % 2 = 0 THEN FALSE
    ELSE IF n % 3 = 0 THEN FALSE
    ELSE IF n % 5 = 0 THEN FALSE
    ELSE wheel30_get_bit(sieve.bitmap, wheel30_bit_index(n))

\* a range test that lets every n through
sieve_in_range_unbounded(sieve, n) == TRUE

sieve_in_range(sieve, n) == n <= sieve.threshold

(***************************************************************************)
(* solve.h and search.c: the per-n solver.  The two loops are the same     *)
(* walk over a; they differ in the candidate test.                         *)
(***************************************************************************)
is_candidate_prime_with_sieve_local(candidate, sieve) ==
    LET td == trial_division_check_local(candidate)
    IN  IF td = 0 THEN FALSE
        ELSE IF td = 1 THEN TRUE
        ELSE IF sieve # NoSieve /\ sieve_in_range(sieve, candidate)
             THEN sieve_is_prime(sieve, candidate)
        ELSE is_prime_fj64_fast(candidate)

\* the candidate test of the loop: "solve" is find_solution_from_N,
\* "parallel" is find_solution_parallel
candidate_test(variant, candidate, sieve) ==
    IF variant = "solve" THEN is_candidate_prime(candidate)
    ELSE IF sieve # NoSieve
         THEN is_candidate_prime_with_sieve_local(candidate, sieve)
         ELSE is_candidate_prime_local(candidate)

\* a_max left as isqrt64 returns it
odd_a_max_keeps_even(r) == r

\* "if ((a_max & 1) == 0) a_max--;"
odd_a_max(r) == IF r % 2 = 0 THEN Sub(r, 1) ELSE r

\* the loop variables on entry to "while (1)"
walk_init(N, a_max) ==
    [a         |-> a_max,
     candidate |-> Sub(N, Mul(a_max, a_max)) \div 2,
     delta     |-> Mul(2, Sub(a_max, 1))]

\* walk_step without "if (candidate >= 2)"
walk_step_unguarded(w, variant, sieve) ==
    IF candidate_test(variant, w.candidate, sieve)
    THEN [done |-> TRUE, ret |-> w.a, p |-> w.candidate, w |-> w]
    ELSE IF w.a < 3
    THEN [done |-> TRUE, ret |-> 0, p |-> 0, w |-> w]
    ELSE [done |-> FALSE, ret |-> 0, p |-> 0,
          w |-> [a         |-> Sub(w.a, 2),
                 candidate |-> Add(w.candidate, w.delta),
                 delta     |-> Sub(w.delta, 4)]]

\* one iteration of "while (1)": a return (ret, p) or the next variables.
\* p_out is not written when 0 is returned; the callers preset it to 0.
walk_step(w, variant, sieve) ==
    IF w.candidate >= 2 /\ candidate_test(variant, w.candidate, sieve)
    THEN [done |-> TRUE, ret |-> w.a, p |-> w.candidate, w |-> w]
    ELSE IF w.a < 3
    THEN [done |-> TRUE, ret |-> 0, p |-> 0, w |-> w]
    ELSE [done |-> FALSE, ret |-> 0, p |-> 0,
          w |-> [a         |-> Sub(w.a, 2),
                 candidate |-> Add(w.candidate, w.delta),
                 delta     |-> Sub(w.delta, 4)]]

\* the loop variables after k passes through the three updates at the
\* bottom of the loop: k times "a -= 2", k times "delta -= 4", and
\* candidate increased by delta0, delta0 - 4, ..., delta0 - 4(k - 1)
walk_after(w, k) ==
    [a         |-> Sub(w.a, 2 * k),
     candidate |-> (w.candidate + k * w.delta + W * k * k - 2 * k * (k - 1)) % W,
     delta     |-> (w.delta + 4 * W * k - 4 * k) % W]

\* the loop breaks at "if (a < 3)" after this many updates
walk_length(w) == IF w.a < 3 THEN 0 ELSE (w.a - 1) \div 2

\* the loop returns a solution at iteration k
walk_hit(w, k, variant, sieve) ==
    /\ walk_after(w, k).candidate >= 2
    /\ candidate_test(variant, walk_after(w, k).candidate, sieve)

\* the whole loop: the first iteration that returns, or 0 after the break
walk(w, variant, sieve) ==
    IF \A k \in 0..walk_length(w) : ~walk_hit(w, k, variant, sieve)
    THEN [a |-> 0, p |-> 0]
    ELSE LET k == CHOOSE i \in 0..walk_length(w) :
                      /\ walk_hit(w, i, variant, sieve)
                      /\ \A j \in 0..(i - 1) : ~walk_hit(w, j, variant, sieve)
         IN  [a |-> walk_after(w, k).a, p |-> walk_after(w, k).candidate]

find_solution_from_N(N, a_max) == walk(walk_init(N, a_max), "solve", NoSieve)

\* the result of a call that never returns
NoReturn == [a |-> Diverges, p |-> Diverges]

find_solution_seeded(n, seed) ==
    LET N == Add(Mul(8, n), 3)
        r == isqrt64_seeded(N, seed)
    IN  IF r = Diverges THEN NoReturn
        ELSE find_solution_from_N(N, odd_a_max(r))

find_solution(n) == find_solution_seeded(n, SqrtFloor(Add(Mul(8, n), 3)))

find_solution_parallel(n, sieve) ==
    LET N == Add(Mul(8, n), 3)
        r == isqrt64(N)
    IN  IF r = Diverges THEN NoReturn
        ELSE walk(walk_init(N, odd_a_max(r)), "parallel", sieve)

(***************************************************************************)
(* The solver as a state machine: a call, then one loop iteration per      *)
(* step.  sv.pc is "idle", "walk" (in the loop), "ret" (returned) or       *)
(* "hang" (isqrt64 never returned).                                        *)
(***************************************************************************)
\* thresholds of the sieves handed to find_solution_parallel
SolveSieveTiny == 50
SolveSieveSmall == 130
SolveSieveLarge == 300

\* n ranges over the valid range and just past it
SolveMaxN == W \div 8 + 1

\* 0 is "no sieve", as in main
SolveThresholds == {0, SolveSieveTiny, SolveSieveSmall, SolveSieveLarge}

\* "if (sieve_threshold > 0) sieve = sieve_create(sieve_threshold);"
SieveOf(thr) == IF thr > 0 THEN sieve_create(thr) ELSE NoSieve

SvIdle ==
    [pc |-> "idle", variant |-> "solve", n |-> 0, N |-> 0, a_max |-> 0,
     w |-> walk_init(0, 0), iters |-> 0, ret |-> 0, p |-> 0,
     sieve |-> NoSieve]

PsIdle == [pc |-> "idle"]
BsIdle == [pc |-> "idle"]
GpuIdle == [pc |-> "idle"]
CpuIdle == [pc |-> "idle"]

\* find_solution / find_solution_parallel up to the entry of "while (1)"
SolveCall ==
    /\ sv.pc = "idle"
    /\ \E n \in 0..SolveMaxN, variant \in {"solve", "parallel"},
          thr \in SolveThresholds :
         LET N == Add(Mul(8, n), 3) IN
         \E seed \in Seeds(N) :
            LET r == isqrt64_seeded(N, seed) IN
            /\ variant = "solve" => thr = 0
            /\ sv' = IF r = Diverges
                     THEN [SvIdle EXCEPT !.pc = "hang", !.variant = variant,
                                         !.n = n, !.N = N,
                                         !.sieve = SieveOf(thr)]
                     ELSE [SvIdle EXCEPT !.pc = "walk", !.variant = variant,
                                         !.n = n, !.N = N,
                                         !.sieve = SieveOf(thr),
                                         !.a_max = odd_a_max(r),
                                         !.w = walk_init(N, odd_a_max(r))]
    /\ UNCHANGED <<ps, bs, gpu, cpu>>

\* one iteration of "while (1)"
SolveIter ==
    /\ sv.pc = "walk"
    /\ LET r == walk_step(sv.w, sv.variant, sv.sieve)
       IN  sv' = IF r.done
                 THEN [sv EXCEPT !.pc = "ret", !.ret = r.ret, !.p = r.p,
                                 !.iters = sv.iters + 1]
                 ELSE [sv EXCEPT !.w = r.w, !.iters = sv.iters + 1]
    /\ UNCHANGED <<ps, bs, gpu, cpu>>

\* the caller takes the result
SolveReturn ==
    /\ sv.pc = "ret"
    /\ sv' = SvIdle
    /\ UNCHANGED <<ps, bs, gpu, cpu>>

InitSolve ==
    /\ sv = SvIdle
    /\ ps = PsIdle
    /\ bs = BsIdle
    /\ gpu = GpuIdle
    /\ cpu = CpuIdle

NextSolve == SolveCall \/ SolveIter \/ SolveReturn

SpecSolve == InitSolve /\ [][NextSolve]_vars

\* the largest odd integer <= floor(sqrt(N)), over the naturals
OddIsqrt(N) == IF SqrtFloor(N) % 2 = 0 THEN SqrtFloor(N) - 1 ELSE SqrtFloor(N)

\* the odd a in [1, a_max] whose p = (8n+3 - a*a)/2 is >= 2 and prime
ValidAs(n) ==
    {a \in 1..OddIsqrt(8 * n + 3) :
        /\ a % 2 = 1
        /\ (8 * n + 3 - a * a) \div 2 >= 2
        /\ IsPrime((8 * n + 3 - a * a) \div 2)}

LargestValidA(n) ==
    LET as == ValidAs(n)
    IN  IF as = {} THEN 0 ELSE CHOOSE a \in as : \A b \in as : b <= a

InValidRange(n) == n >= 1 /\ n < W \div 8

\* C1: for every n >= 1 in the valid range, a result a # 0 returned with p
\* is a valid solution: a is odd, 1 <= a <= the largest odd integer
\* <= isqrt(8n+3), p >= 2 is prime and a*a + 2p = 8n + 3.
C1_ReturnedPairIsValid ==
    (sv.pc = "ret" /\ InValidRange(sv.n) /\ sv.ret # 0) =>
        /\ sv.ret % 2 = 1
        /\ 1 <= sv.ret
        /\ sv.ret <= OddIsqrt(8 * sv.n + 3)
        /\ sv.p >= 2
        /\ IsPrime(sv.p)
        /\ sv.ret * sv.ret + 2 * sv.p = 8 * sv.n + 3

\* C2: for every n >= 1, find_solution(n) returns the largest odd a in
\* [1, a_max] whose p is >= 2 and prime, and 0 exactly when there is none.
C2_ReturnsLargestA ==
    (sv.pc = "ret" /\ sv.variant = "solve" /\ InValidRange(sv.n)) =>
        sv.ret = LargestValidA(sv.n)

\* C9: for n = 1, 2, 3, 4 the solver reports (a, p) = (1, 5), (3, 5),
\* (1, 13), (5, 5), passing over the candidates p < 2 at the top of the
\* walk without stopping.
C9_KnownSolutions ==
    /\ (sv.pc = "ret" /\ sv.n = 1) => (sv.ret = 1 /\ sv.p = 5)
    /\ (sv.pc = "ret" /\ sv.n = 2) => (sv.ret = 3 /\ sv.p = 5)
    /\ (sv.pc = "ret" /\ sv.n = 3) => (sv.ret = 1 /\ sv.p = 13)
    /\ (sv.pc = "ret" /\ sv.n = 4) => (sv.ret = 5 /\ sv.p = 5)
    /\ sv.n \in 1..4 => sv.pc # "hang"

\* n = 1: the walk passed over a = 3 (candidate 1) and returned at a = 1
C9_Witness ==
    sv.pc = "ret" /\ sv.n = 1 /\ sv.iters = 2 /\ sv.ret = 1 /\ sv.p = 5

\* C11: find_solution_parallel with a sieve of any threshold returns the
\* same a as without a sieve (same N, same a_max).
C11_SieveKeepsAnswer ==
    (sv.pc = "ret" /\ sv.variant = "parallel") =>
        /\ sv.ret = walk(walk_init(sv.N, sv.a_max), "parallel", NoSieve).a
        /\ sv.p = walk(walk_init(sv.N, sv.a_max), "parallel", NoSieve).p

\* a candidate above 127 was accepted by the sieve lookup after an earlier
\* candidate was rejected
C11_Witness ==
    /\ sv.pc = "ret"
    /\ sv.variant = "parallel"
    /\ sv.sieve # NoSieve
    /\ sv.p > 127
    /\ sieve_in_range(sv.sieve, sv.p)
    /\ sv.iters > 1

(***************************************************************************)
(* arith_montgomery.h: which Miller-Rabin implementation the oracle uses.  *)
(* MONTGOMERY_SAFE_THRESHOLD is 2^63, half the word.                       *)
(***************************************************************************)
MONTGOMERY_SAFE_THRESHOLD == W \div 2

\* a routing that always takes the fallback
mr_witness_montgomery_always_std(n) == "mr_witness_std"

\* mr_witness_montgomery: the branch taken for the number tested
mr_witness_montgomery(n) ==
    IF n < MONTGOMERY_SAFE_THRESHOLD THEN "mr_witness_montgomery_safe"
    ELSE "mr_witness_std"

\* the loop iteration on this candidate calls is_prime_fj64_fast
candidate_reaches_oracle(variant, candidate, sieve) ==
    /\ candidate >= 2
    /\ IF variant = "solve"
       THEN trial_division_check(candidate) = 2 /\ ~(candidate <= 127)
       ELSE /\ trial_division_check_local(candidate) = 2
            /\ IF sieve # NoSieve THEN ~sieve_in_range(sieve, candidate)
               ELSE ~(candidate <= 127)

\* C22: at the top of every iteration of the walk, for every valid n,
\* a is odd with 1 <= a <= a_max, candidate = (N - a*a)/2 and
\* delta = 2(a - 1), as integers (nothing has wrapped).
C22_WalkIdentity ==
    (sv.pc = "walk" /\ InValidRange(sv.n)) =>
        /\ sv.w.a % 2 = 1
        /\ 1 <= sv.w.a /\ sv.w.a <= sv.a_max
        /\ sv.w.a * sv.w.a <= sv.N
        /\ sv.w.candidate = (sv.N - sv.w.a * sv.w.a) \div 2
        /\ sv.w.delta = 2 * (sv.w.a - 1)

\* n near the top of the valid range: its last eighth
NearTop(n) == InValidRange(n) /\ n >= W \div 8 - W \div 64

\* N is below (2^32 - 1)^2, the first value at which (x+1)*(x+1) wraps in
\* isqrt64
BelowIsqrtWrap(N) ==
    N < (2^(WordBits \div 2) - 1) * (2^(WordBits \div 2) - 1)

\* C13 (as stated): for n near 2^61 the primality tests of the solver are
\* routed to mr_witness_std.
C13_NearTopUsesFallback ==
    (/\ sv.pc = "walk"
     /\ NearTop(sv.n)
     /\ candidate_reaches_oracle(sv.variant, sv.w.candidate, sv.sieve)) =>
        mr_witness_montgomery(sv.w.candidate) = "mr_witness_std"

\* C13 (amended): every number the solver passes to the oracle is a
\* candidate (N - a*a)/2 with a*a <= N, hence below 2^63, and the oracle
\* takes the Montgomery path, for n near 2^61 as for every other n with
\* 8n + 3 < (2^32 - 1)^2.
C13_SolverStaysOnMontgomeryPath ==
    (/\ sv.pc = "walk"
     /\ BelowIsqrtWrap(sv.N)
     /\ candidate_reaches_oracle(sv.variant, sv.w.candidate, sv.sieve)) =>
        /\ sv.w.candidate < MONTGOMERY_SAFE_THRESHOLD
        /\ mr_witness_montgomery(sv.w.candidate)
             = "mr_witness_montgomery_safe"

\* the solver is about to pass a candidate to the oracle for an n near the
\* top of the range
C13_Witness ==
    /\ sv.pc = "walk"
    /\ NearTop(sv.n)
    /\ BelowIsqrtWrap(sv.N)
    /\ sv.w.candidate > 127
    /\ candidate_reaches_oracle(sv.variant, sv.w.candidate, sv.sieve)

(***************************************************************************)
(* isqrt64 as a state machine, one step per loop test.  sv.pc is           *)
(* "isqrt_entry", "isqrt_down" (first loop), "isqrt_up" (second loop) or   *)
(* "isqrt_ret".  The input n is any word, the seed any value Seeds(n)      *)
(* allows.                                                                 *)
(***************************************************************************)
IsqrtCalls ==
    UNION {{[pc |-> "isqrt_entry", n |-> n, seed |-> seed, x |-> 0] :
              seed \in Seeds(n)} : n \in 0..(W - 1)}

\* "if (n == 0) return 0; x = (uint64_t)sqrtl((long double)n);"
IsqrtEntry ==
    /\ sv.pc = "isqrt_entry"
    /\ sv' = IF sv.n = 0 THEN [sv EXCEPT !.pc = "isqrt_ret", !.x = 0]
             ELSE [sv EXCEPT !.pc = "isqrt_down", !.x = sv.seed]
    /\ UNCHANGED <<ps, bs, gpu, cpu>>

\* "while (x > 0 && x * x > n) x--;"
IsqrtDown ==
    /\ sv.pc = "isqrt_down"
    /\ sv' = IF sv.x > 0 /\ Mul(sv.x, sv.x) > sv.n
             THEN [sv EXCEPT !.x = Sub(sv.x, 1)]
             ELSE [sv EXCEPT !.pc = "isqrt_up"]
    /\ UNCHANGED <<ps, bs, gpu, cpu>>

\* "while ((x + 1) * (x + 1) <= n) x++; return x;"
IsqrtUp ==
    /\ sv.pc = "isqrt_up"
    /\ sv' = IF Mul(Add(sv.x, 1), Add(sv.x, 1)) <= sv.n
             THEN [sv EXCEPT !.x = Add(sv.x, 1)]
             ELSE [sv EXCEPT !.pc = "isqrt_ret"]
    /\ UNCHANGED <<ps, bs, gpu, cpu>>

InitIsqrt ==
    /\ sv \in IsqrtCalls
    /\ ps = PsIdle
    /\ bs = BsIdle
    /\ gpu = GpuIdle
    /\ cpu = CpuIdle

NextIsqrt == IsqrtEntry \/ IsqrtDown \/ IsqrtUp

SpecIsqrt == InitIsqrt /\ [][NextIsqrt]_vars

\* C12: isqrt64(n) returns the x with x*x <= n < (x+1)*(x+1), for every
\* word n and every seed.
C12_IsqrtIsFloorSqrt ==
    sv.pc = "isqrt_ret" =>
        /\ sv.x * sv.x <= sv.n
        /\ sv.n < (sv.x + 1) * (sv.x + 1)

(***************************************************************************)
(* The incremental a_max of the analysis programs: verify_incremental      *)
(* (isqrt_overhead.c) compares the maintained a_max with the recomputed    *)
(* one, benchmark (compare_deferred_hash.c) hands it to the solver.  Both  *)
(* start from isqrt64(8 * n_start + 3) and advance it with the same two    *)
(* statements.  sv.pc is "inc_entry", "inc_loop", "inc_step", "inc_done"   *)
(* or "inc_hang" (an isqrt64 call that never returns).                     *)
(***************************************************************************)
\* the iterations of one run (ITERATIONS and count, scaled)
MaxCount == 4

\* "N += 8; next_sq = (a_max + 2) * (a_max + 2); if (next_sq <= N) a_max += 2;"
a_max_increment(N, a_max) ==
    LET N1      == Add(N, 8)
        next_a  == Add(a_max, 2)
        next_sq == Mul(next_a, next_a)
    IN  [N |-> N1, a_max |-> IF next_sq <= N1 THEN next_a ELSE a_max]

IncCalls ==
    UNION {{[pc |-> "inc_entry", variant |-> v, n_start |-> n, count |-> c,
             i |-> 0, N |-> 0, a_max |-> 0, mismatches |-> 0, sum |-> 0] :
               c \in 1..MaxCount, v \in {"verify_incremental", "benchmark"}} :
           n \in 0..(W \div 8 - 1)}

\* "N = 8 * n_start + 3; a_max = isqrt64(N); if ((a_max & 1) == 0) a_max--;"
IncEntry ==
    /\ sv.pc = "inc_entry"
    /\ LET N == Add(Mul(8, sv.n_start), 3)
       IN  \E seed \in Seeds(N) :
             LET r == isqrt64_seeded(N, seed)
             IN  sv' = IF r = Diverges
                       THEN [sv EXCEPT !.pc = "inc_hang", !.N = N]
                       ELSE [sv EXCEPT !.pc = "inc_loop", !.N = N,
                                       !.a_max = odd_a_max(r)]
    /\ UNCHANGED <<ps, bs, gpu, cpu>>

\* verify_incremental, the first half of the loop body: recompute and compare
VerifyCompare ==
    /\ sv.pc = "inc_loop"
    /\ sv.variant = "verify_incremental"
    /\ sv.i < sv.count
    /\ LET N_cur == Add(Mul(8, Add(sv.n_start, sv.i)), 3)
       IN  \E seed \in Seeds(N_cur) :
             LET r == isqrt64_seeded(N_cur, seed)
             IN  sv' = IF r = Diverges
                       THEN [sv EXCEPT !.pc = "inc_hang"]
                       ELSE [sv EXCEPT
                               !.pc = "inc_step",
                               !.mismatches =
                                  IF sv.a_max # odd_a_max(r)
                                  THEN sv.mismatches + 1 ELSE sv.mismatches]
    /\ UNCHANGED <<ps, bs, gpu, cpu>>

\* benchmark, the first half of the loop body: "sum += find_fn(N, a_max, &p);"
BenchmarkCall ==
    /\ sv.pc = "inc_loop"
    /\ sv.variant = "benchmark"
    /\ sv.i < sv.count
    /\ sv' = [sv EXCEPT !.pc = "inc_step",
                        !.sum = Add(sv.sum,
                                    find_solution_from_N(sv.N, sv.a_max).a)]
    /\ UNCHANGED <<ps, bs, gpu, cpu>>

\* the second half of the loop body and "i++"
IncStep ==
    /\ sv.pc = "inc_step"
    /\ LET nx == a_max_increment(sv.N, sv.a_max)
       IN  sv' = [sv EXCEPT !.pc = "inc_loop", !.N = nx.N,
                            !.a_max = nx.a_max, !.i = sv.i + 1]
    /\ UNCHANGED <<ps, bs, gpu, cpu>>

\* the loop ends
IncReturn ==
    /\ sv.pc = "inc_loop"
    /\ sv.i >= sv.count
    /\ sv' = [sv EXCEPT !.pc = "inc_done"]
    /\ UNCHANGED <<ps, bs, gpu, cpu>>

InitInc ==
    /\ sv \in IncCalls
    /\ ps = PsIdle
    /\ bs = BsIdle
    /\ gpu = GpuIdle
    /\ cpu = CpuIdle

NextInc ==
    \/ IncEntry
    \/ VerifyCompare
    \/ BenchmarkCall
    \/ IncStep
    \/ IncReturn

SpecInc == InitInc /\ [][NextInc]_vars

\* the n the maintained a_max belongs to
IncN == sv.n_start + sv.i

\* C14: at every step the maintained a_max is odd and satisfies
\* a_max^2 <= 8n + 3 < (a_max + 2)^2 for the n it belongs to; stated for
\* the runs that start below (2^32 - 1)^2, where isqrt64 is exact, and stay
\* in the valid range.
C14_IncrementLaw ==
    (/\ sv.pc = "inc_loop"
     /\ InValidRange(sv.n_start)
     /\ InValidRange(IncN)
     /\ BelowIsqrtWrap(8 * sv.n_start + 3)) =>
        /\ sv.a_max % 2 = 1
        /\ sv.a_max * sv.a_max <= 8 * IncN + 3
        /\ 8 * IncN + 3 < (sv.a_max + 2) * (sv.a_max + 2)

(***************************************************************************)
(* arith_montgomery.h: the two Miller-Rabin witness tests.  uint64_t is    *)
(* the word, __uint128_t the double word; r = W.  The fast test runs as a  *)
(* state machine, one loop iteration per step; sv.reduces holds the calls  *)
(* <<t, result>> of montgomery_reduce made by the last step.  sv.pc is     *)
(* "mont_entry", "mont_exp", "mont_sq" or "mont_ret".                      *)
(***************************************************************************)
\* the moduli tried are the odd n in 3..MontLowN and the MontTopCount
\* largest odd n below MONTGOMERY_SAFE_THRESHOLD; the bases are
\* 0..MontLowBase and the MontTopBases largest words
MontLowN == 255
MontTopCount == 128
MontLowBase == 127
MontTopBases == 16

DW == W * W

\* "x = n; x *= 2 - n * x;" five times, "return -x;"
montgomery_newton(n, x) == Mul(x, Sub(2, Mul(n, x)))

montgomery_inverse(n) ==
    Sub(0, montgomery_newton(n, montgomery_newton(n, montgomery_newton(n,
           montgomery_newton(n, montgomery_newton(n, n))))))

\* montgomery_reduce without "(u >= n) ? (u - n) : u"
montgomery_reduce_no_subtract(t, n, n_inv) ==
    LET m  == Mul(t % W, n_inv)
        mn == (m * n) % DW
    IN  ((t + mn) % DW) \div W

montgomery_reduce(t, n, n_inv) ==
    LET m  == Mul(t % W, n_inv)
        mn == (m * n) % DW
        u  == ((t + mn) % DW) \div W
    IN  IF u >= n THEN Sub(u, n) ELSE u

montgomery_mul(a, b, n, n_inv) == montgomery_reduce((a * b) % DW, n, n_inv)

\* "r = ((__uint128_t)1 << 64) % n; return ((__uint128_t)r * r) % n;"
montgomery_r_squared(n) == ((W % n) * (W % n)) % n

\* __builtin_ctzll(d) for d > 0
ctzll(d) == CHOOSE k \in 0..WordBits : d % (2^k) = 0 /\ d % (2^(k + 1)) # 0

mulmod64_std(a, b, m) == (a * b) % m

RECURSIVE powmod64_loop(_, _, _, _)
powmod64_loop(result, base, exp, mod) ==
    IF exp > 0
    THEN powmod64_loop(IF exp % 2 = 1 THEN mulmod64_std(result, base, mod)
                       ELSE result,
                       mulmod64_std(base, base, mod), exp \div 2, mod)
    ELSE result

powmod64_std(base, exp, mod) == powmod64_loop(1, base % mod, exp, mod)

\* "for (i = 1; i < r; i++)" of mr_witness_std, from i with the current x
RECURSIVE mr_std_squarings(_, _, _, _)
mr_std_squarings(x, i, r, n) ==
    IF i < r
    THEN LET x1 == mulmod64_std(x, x, n)
         IN  IF x1 = n - 1 THEN TRUE
             ELSE IF x1 = 1 THEN FALSE
             ELSE mr_std_squarings(x1, i + 1, r, n)
    ELSE FALSE

mr_witness_std(n, a) ==
    LET a1 == IF a >= n THEN a % n ELSE a
        r  == ctzll(n - 1)
        d  == (n - 1) \div (2^r)
        x  == powmod64_std(a1, d, n)
    IN  IF a1 = 0 THEN TRUE
        ELSE IF x = 1 \/ x = n - 1 THEN TRUE
        ELSE mr_std_squarings(x, 1, r, n)

MontModuli ==
    {n \in 3..MontLowN : n % 2 = 1}
    \cup {n \in (MONTGOMERY_SAFE_THRESHOLD - 2 * MontTopCount)..
                (MONTGOMERY_SAFE_THRESHOLD - 1) : n % 2 = 1}

MontBases == (0..MontLowBase) \cup ((W - MontTopBases)..(W - 1))

MontCalls ==
    UNION {{[pc |-> "mont_entry", n |-> n, a |-> a, n_inv |-> 0, r_sq |-> 0,
             d |-> 0, r |-> 0, one_m |-> 0, neg_one_m |-> 0, x_m |-> 0,
             base_m |-> 0, exp |-> 0, i |-> 0, ret |-> FALSE,
             reduces |-> {}] : a \in MontBases} : n \in MontModuli}

\* mr_witness_montgomery computes n_inv and r_sq; mr_witness_montgomery_safe
\* up to the exponentiation loop
MontEntry ==
    /\ sv.pc = "mont_entry"
    /\ LET n     == sv.n
           n_inv == montgomery_inverse(n)
           r_sq  == montgomery_r_squared(n)
           a     == IF sv.a >= n THEN sv.a % n ELSE sv.a
           r     == ctzll(n - 1)
           one_m == montgomery_reduce(r_sq, n, n_inv)
           a_m   == montgomery_reduce((a * r_sq) % DW, n, n_inv)
       IN  sv' = IF a = 0
                 THEN [sv EXCEPT !.pc = "mont_ret", !.ret = TRUE, !.a = a,
                                 !.n_inv = n_inv, !.r_sq = r_sq]
                 ELSE [sv EXCEPT !.pc = "mont_exp", !.a = a,
                                 !.n_inv = n_inv, !.r_sq = r_sq,
                                 !.r = r, !.d = (n - 1) \div (2^r),
                                 !.one_m = one_m,
                                 !.neg_one_m = Sub(n, one_m),
                                 !.x_m = one_m, !.base_m = a_m,
                                 !.exp = (n - 1) \div (2^r),
                                 !.reduces = {<<r_sq, one_m>>,
                                              <<(a * r_sq) % DW, a_m>>}]
    /\ UNCHANGED <<ps, bs, gpu, cpu>>

\* one iteration of "while (exp > 0)"
MontExp ==
    /\ sv.pc = "mont_exp"
    /\ sv.exp > 0
    /\ LET temp == montgomery_mul(sv.x_m, sv.base_m, sv.n, sv.n_inv)
           sq   == montgomery_mul(sv.base_m, sv.base_m, sv.n, sv.n_inv)
       IN  sv' = [sv EXCEPT
                    !.x_m = IF sv.exp % 2 = 1 THEN temp ELSE sv.x_m,
                    !.base_m = sq,
                    !.exp = sv.exp \div 2,
                    !.reduces = {<<(sv.x_m * sv.base_m) % DW, temp>>,
                                 <<(sv.base_m * sv.base_m) % DW, sq>>}]
    /\ UNCHANGED <<ps, bs, gpu, cpu>>

\* the loop is left: "if (x_m == one_m || x_m == neg_one_m) return true;"
MontExpDone ==
    /\ sv.pc = "mont_exp"
    /\ ~(sv.exp > 0)
    /\ sv' = IF sv.x_m = sv.one_m \/ sv.x_m = sv.neg_one_m
             THEN [sv EXCEPT !.pc = "mont_ret", !.ret = TRUE, !.reduces = {}]
             ELSE [sv EXCEPT !.pc = "mont_sq", !.i = 1, !.reduces = {}]
    /\ UNCHANGED <<ps, bs, gpu, cpu>>

\* one iteration of "for (i = 1; i < r; i++)", or the final "return false"
MontSq ==
    /\ sv.pc = "mont_sq"
    /\ LET x1 == montgomery_mul(sv.x_m, sv.x_m, sv.n, sv.n_inv)
       IN  sv' = IF ~(sv.i < sv.r)
                 THEN [sv EXCEPT !.pc = "mont_ret", !.ret = FALSE,
                                 !.reduces = {}]
                 ELSE IF x1 = sv.neg_one_m
                 THEN [sv EXCEPT !.pc = "mont_ret", !.ret = TRUE, !.x_m = x1,
                                 !.reduces = {<<(sv.x_m * sv.x_m) % DW, x1>>}]
                 ELSE IF x1 = sv.one_m
                 THEN [sv EXCEPT !.pc = "mont_ret", !.ret = FALSE, !.x_m = x1,
                                 !.reduces = {<<(sv.x_m * sv.x_m) % DW, x1>>}]
                 ELSE [sv EXCEPT !.x_m = x1, !.i = sv.i + 1,
                                 !.reduces = {<<(sv.x_m * sv.x_m) % DW, x1>>}]
    /\ UNCHANGED <<ps, bs, gpu, cpu>>

InitMont ==
    /\ sv \in MontCalls
    /\ ps = PsIdle
    /\ bs = BsIdle
    /\ gpu = GpuIdle
    /\ cpu = CpuIdle

NextMont == MontEntry \/ MontExp \/ MontExpDone \/ MontSq

SpecMont == InitMont /\ [][NextMont]_vars

\* C23: for odd n with 3 <= n < 2^63 and every base,
\* mr_witness_montgomery_safe returns the verdict of mr_witness_std, and
\* every montgomery_reduce result is < n and congruent to t * r^-1 (mod n).
C23_MontgomeryEqualsStd ==
    /\ sv.pc = "mont_ret" => (sv.ret <=> mr_witness_std(sv.n, sv.a))
    /\ sv.pc \in {"mont_exp", "mont_sq", "mont_ret"} =>
          \A c \in sv.reduces :
             /\ c[2] < sv.n
             /\ (c[2] * W) % sv.n = c[1] % sv.n

\* a verdict "false" reached in the squaring loop for a modulus in the top
\* of the fast path's range
C23_Witness ==
    /\ sv.pc = "mont_ret"
    /\ sv.n >= MONTGOMERY_SAFE_THRESHOLD - 2 * MontTopCount
    /\ ~sv.ret
    /\ sv.i >= 2
    /\ sv.x_m = sv.one_m
    /\ sv.a > 1

(***************************************************************************)
(* sieve_create as a state machine: the sequential part in one step, then  *)
(* one step per segment.  With OpenMP the segments are handed to the       *)
(* threads in any order ("omp"); without it they run in order ("seq").     *)
(* ps.pc is "idle", "segments", "done" (a sieve was returned) or "null".   *)
(***************************************************************************)
SieveThresholds(mode) ==
    IF mode = "omp" THEN 0..MaxThreshold
    ELSE {LargeThreshold - 1, LargeThreshold}

\* sieve_create up to the segment loop; ok is whether the four allocations
\* succeeded
SieveStart ==
    /\ ps.pc = "idle"
    /\ \E mode \in {"omp", "seq"}, ok \in BOOLEAN :
         \E thr \in SieveThresholds(mode) :
            ps' = IF ok
                  THEN [pc        |-> "segments",
                        mode      |-> mode,
                        threshold |-> sieve_threshold_of(thr),
                        primes    |-> sieving_primes_of(thr),
                        bitmap    |-> AllBits(sieve_num_bytes(thr)),
                        pending   |-> 0..(sieve_num_segments(thr) - 1),
                        reordered |-> FALSE]
                  ELSE [pc |-> "null"]
    /\ UNCHANGED <<sv, bs, gpu, cpu>>

\* one iteration of the segment loop
SieveSegment ==
    /\ ps.pc = "segments"
    /\ \E seg \in ps.pending :
         /\ ps.mode = "seq" => \A other \in ps.pending : seg <= other
         /\ ps' = [ps EXCEPT
                     !.bitmap = sieve_segment(ps.bitmap, seg, ps.threshold,
                                              ps.primes),
                     !.pending = ps.pending \ {seg},
                     !.reordered = ps.reordered
                                   \/ \E other \in ps.pending : other < seg]
    /\ UNCHANGED <<sv, bs, gpu, cpu>>

\* "return sieve;" after the loop
SieveReturn ==
    /\ ps.pc = "segments"
    /\ ps.pending = {}
    /\ ps' = [ps EXCEPT !.pc = "done"]
    /\ UNCHANGED <<sv, bs, gpu, cpu>>

\* sieve_destroy, or the caller's handling of NULL
SieveDestroy ==
    /\ ps.pc \in {"done", "null"}
    /\ ps' = PsIdle
    /\ UNCHANGED <<sv, bs, gpu, cpu>>

InitSieve ==
    /\ sv = SvIdle
    /\ ps = PsIdle
    /\ bs = BsIdle
    /\ gpu = GpuIdle
    /\ cpu = CpuIdle

NextSieve == SieveStart \/ SieveSegment \/ SieveReturn \/ SieveDestroy

SpecSieve == InitSieve /\ [][NextSieve]_vars

\* the PrimeSieve a finished build returned
BuiltSieve == [threshold |-> ps.threshold, bitmap |-> ps.bitmap]

\* C10: after sieve_create(T), for every n with 0 <= n <= T,
\* sieve_is_prime(sieve, n) is true iff n is prime, whatever the number of
\* segments and the order in which they were sieved; the sieve built in
\* steps is the one sieve_create computes with the segments in order.
C10_SieveIsExact ==
    ps.pc = "done" =>
        /\ \A n \in 0..ps.threshold : sieve_is_prime(BuiltSieve, n) <=> IsPrime(n)
        /\ BuiltSieve = sieve_create(ps.threshold)

\* a build of several segments, sieved out of order, that struck 7 * 11
C10_Witness ==
    /\ ps.pc = "done"
    /\ ps.reordered
    /\ ps.threshold = MaxThreshold
    /\ ~sieve_is_prime(BuiltSieve, 77)
    /\ sieve_is_prime(BuiltSieve, 79)

(***************************************************************************)
(* search_gpu.c: the GPU driver.  The device is the Metal library, whose   *)
(* code is not part of the sources: metal_search_batch returns any result  *)
(* array.  gpu.pc is "idle", "search" (top of the batch loop), "dispatch"  *)
(* (inside metal_search_batch), "verify" (in the CPU verification loop),   *)
(* "hang" or "exit".  gpu.calls is the history of the calls to the Metal   *)
(* library and of the returns of metal_search_batch.                       *)
(* gpu.handled is the history of the device results the verification loop  *)
(* has gone through; gpu.printed is the n of each counterexample report.   *)
(***************************************************************************)
\* the ranges searched start at 0..GpuMaxStart and hold up to GpuMaxTotal n
GpuMaxStart == 2
GpuMaxTotal == 3
\* --batch-size
GpuMaxBatch == 2

\* the n a faulty device may report in place of the n it was given: 0, and
\* an n for which find_solution never returns
GpuStrayNs == {0, W \div 8 - 1}

\* what the device writes to results[k].n: the n it was given, or a stray n
GpuEcho == 0 - 1

GpuReports == {GpuEcho} \cup GpuStrayNs

\* verify_counterexample_cpu with "return true" for the CPU search
verify_counterexample_trusting_device(n) == TRUE

verify_counterexample_cpu(n) == ~(find_solution(n).a > 0)

\* the return value of main
gpu_exit_code(verified_counterexamples) ==
    IF verified_counterexamples > 0 THEN 2 ELSE 0

GpuStart ==
    [pc |-> "idle", n_start |-> 0, n_end |-> 0, batch_size |-> 0,
     current_n |-> 0, batch_count |-> 0, processed |-> 0, results |-> <<>>,
     i |-> 0, cpu_verified_counterexamples |-> 0, gpu_false_positives |-> 0,
     handled |-> <<>>, printed |-> <<>>, searched |-> FALSE, code |-> 0,
     calls |-> <<>>, error |-> "none", stderr |-> FALSE, submitted |-> <<>>]

\* main that leaves the device initialised when a self-test fails
gpu_main_calls_leaky(init_ok, cpu_ok, test_alloc_ok, matches, verify_only) ==
    IF ~init_ok THEN <<"metal_init:false">>
    ELSE IF ~cpu_ok THEN <<"metal_init:true">>
    ELSE IF ~test_alloc_ok THEN <<"metal_init:true">>
    ELSE IF ~matches
    THEN <<"metal_init:true", "metal_search_batch", "return">>
    ELSE IF verify_only
    THEN <<"metal_init:true", "metal_search_batch", "return",
           "metal_cleanup">>
    ELSE <<"metal_init:true", "metal_search_batch", "return">>

\* the calls main makes to the Metal library, in order, from metal_init to
\* the call of run_gpu_search (or to its return statement, when it returns
\* before)
gpu_main_calls(init_ok, cpu_ok, test_alloc_ok, matches, verify_only) ==
    IF ~init_ok THEN <<"metal_init:false">>
    ELSE IF ~cpu_ok THEN <<"metal_init:true", "metal_cleanup">>
    ELSE IF ~test_alloc_ok THEN <<"metal_init:true", "metal_cleanup">>
    ELSE IF ~matches
    THEN <<"metal_init:true", "metal_search_batch", "return",
           "metal_cleanup">>
    ELSE IF verify_only
    THEN <<"metal_init:true", "metal_search_batch", "return",
           "metal_cleanup">>
    ELSE <<"metal_init:true", "metal_search_batch", "return">>

\* the resource error or other failure that ends main before the search
gpu_main_error(unknown_option, empty_range, available, init_ok, cpu_ok, test_alloc_ok, matches) ==
    IF unknown_option THEN "unknown_option"
    ELSE IF empty_range THEN "empty_range"
    ELSE IF ~available THEN "gpu_unavailable"
    ELSE IF ~init_ok THEN "metal_init"
    ELSE IF ~cpu_ok THEN "cpu_self_test"
    ELSE IF ~test_alloc_ok THEN "test_buffers"
    ELSE IF ~matches THEN "gpu_self_test"
    ELSE "none"

\* main up to the batch loop of run_gpu_search
GpuMain ==
    /\ gpu.pc = "idle"
    /\ \E n_start \in 0..GpuMaxStart, total \in 0..GpuMaxTotal,
          batch_size \in 0..GpuMaxBatch,
          unknown_option \in BOOLEAN, available \in BOOLEAN,
          init_ok \in BOOLEAN, test_alloc_ok \in BOOLEAN,
          gpu_matches_cpu \in BOOLEAN,
          verify_only \in BOOLEAN, alloc_ok \in BOOLEAN :
         LET n_end == n_start + total
             cpu_ok == \A n \in 1..4 : find_solution(n).a > 0
             error == gpu_main_error(unknown_option, n_start >= n_end,
                                     available, init_ok, cpu_ok,
                                     test_alloc_ok, gpu_matches_cpu)
             calls == IF unknown_option \/ n_start >= n_end \/ ~available
                      THEN <<>>
                      ELSE gpu_main_calls(init_ok, cpu_ok, test_alloc_ok,
                                          gpu_matches_cpu, verify_only)
         IN  gpu' =
               IF error # "none"
               THEN [GpuStart EXCEPT !.pc = "exit", !.code = 1,
                                     !.calls = calls, !.error = error,
                                     !.stderr = TRUE]
               ELSE IF verify_only
               THEN [GpuStart EXCEPT !.pc = "exit", !.code = 0,
                                     !.calls = calls]
               ELSE IF ~alloc_ok
               THEN [GpuStart EXCEPT !.pc = "exit", !.n_start = n_start,
                                     !.n_end = n_end,
                                     !.batch_size = batch_size,
                                     !.calls = Append(calls, "metal_cleanup"),
                                     !.error = "batch_buffers",
                                     !.stderr = TRUE,
                                     !.code = gpu_exit_code(0)]
               ELSE [GpuStart EXCEPT !.pc = "search", !.n_start = n_start,
                                     !.n_end = n_end,
                                     !.batch_size = batch_size,
                                     !.current_n = n_start,
                                     !.calls = calls,
                                     !.searched = TRUE]
    /\ UNCHANGED <<sv, ps, bs, cpu>>

\* "while (current_n < n_end)": fill a batch and call metal_search_batch.
\* With --batch-size 0 the batch stays empty and current_n never advances:
\* the loop dispatches empty batches for ever ("hang").
GpuDispatch ==
    /\ gpu.pc = "search"
    /\ gpu.current_n < gpu.n_end
    /\ LET left        == gpu.n_end - gpu.current_n
           batch_count == IF gpu.batch_size < left THEN gpu.batch_size
                          ELSE left
       IN  gpu' = [gpu EXCEPT !.pc = IF batch_count = 0 THEN "hang"
                                    ELSE "dispatch",
                              !.current_n = gpu.current_n + batch_count,
                              !.batch_count = batch_count,
                              !.submitted =
                                  gpu.submitted
                                  \o [k \in 1..batch_count |->
                                         gpu.current_n + k - 1],
                              !.calls = Append(gpu.calls,
                                               "metal_search_batch")]
    /\ UNCHANGED <<sv, ps, bs, cpu>>

\* metal_search_batch returns, with any result array
GpuDispatchReturn ==
    /\ gpu.pc = "dispatch"
    /\ \E reports \in [1..gpu.batch_count -> GpuReports],
          founds \in [1..gpu.batch_count -> {0, 1}] :
         LET first   == gpu.current_n - gpu.batch_count
             results ==
               [k \in 1..gpu.batch_count |->
                  [n     |-> IF reports[k] = GpuEcho
                             THEN first + k - 1 ELSE reports[k],
                   found |-> founds[k]]]
         IN  gpu' = [gpu EXCEPT !.pc = "verify",
                                !.processed = gpu.processed + gpu.batch_count,
                                !.results = results,
                                !.i = 0,
                                !.calls = Append(gpu.calls, "return")]
    /\ UNCHANGED <<sv, ps, bs, cpu>>

\* one iteration of "for (i = 0; i < batch_count; i++)"
GpuVerify ==
    /\ gpu.pc = "verify"
    /\ gpu.i < Len(gpu.results)
    /\ LET r == gpu.results[gpu.i + 1]
           next == [gpu EXCEPT !.i = gpu.i + 1,
                               !.handled = Append(gpu.handled, r)]
       IN  gpu' =
             IF r.found # 0 THEN next
             ELSE IF find_solution(r.n) = NoReturn
             THEN [gpu EXCEPT !.pc = "hang"]
             ELSE IF verify_counterexample_cpu(r.n)
             THEN [next EXCEPT
                     !.cpu_verified_counterexamples =
                         gpu.cpu_verified_counterexamples + 1,
                     !.printed = Append(gpu.printed, r.n)]
             ELSE [next EXCEPT
                     !.gpu_false_positives = gpu.gpu_false_positives + 1]
    /\ UNCHANGED <<sv, ps, bs, cpu>>

\* the end of the verification loop: back to the top of the batch loop
GpuBatchDone ==
    /\ gpu.pc = "verify"
    /\ gpu.i >= Len(gpu.results)
    /\ gpu' = [gpu EXCEPT !.pc = "search", !.results = <<>>, !.i = 0]
    /\ UNCHANGED <<sv, ps, bs, cpu>>

\* the batch loop is left: run_gpu_search returns and main exits
GpuExit ==
    /\ gpu.pc = "search"
    /\ ~(gpu.current_n < gpu.n_end)
    /\ gpu' = [gpu EXCEPT
                 !.pc = "exit",
                 !.calls = Append(gpu.calls, "metal_cleanup"),
                 !.code = gpu_exit_code(gpu.cpu_verified_counterexamples)]
    /\ UNCHANGED <<sv, ps, bs, cpu>>

InitGpu ==
    /\ sv = SvIdle
    /\ ps = PsIdle
    /\ bs = BsIdle
    /\ gpu = GpuStart
    /\ cpu = CpuIdle

NextGpu ==
    \/ GpuMain
    \/ GpuDispatch
    \/ GpuDispatchReturn
    \/ GpuVerify
    \/ GpuBatchDone
    \/ GpuExit

SpecGpu == InitGpu /\ [][NextGpu]_vars

\* the handled device results with found = 0, split by what the CPU says
GpuConfirmed ==
    {k \in 1..Len(gpu.handled) :
        gpu.handled[k].found = 0 /\ find_solution(gpu.handled[k].n).a = 0}

GpuFalseNegatives ==
    {k \in 1..Len(gpu.handled) :
        gpu.handled[k].found = 0 /\ find_solution(gpu.handled[k].n).a # 0}

\* C3: whatever the device returns, an n is counted and printed as a
\* counterexample only if its device result has found = 0 and
\* find_solution(n) returns 0; a found = 0 for which the CPU finds a solution
\* only increments the false-negative count and the run goes on to the
\* remaining results; the exit code is 2 iff a CPU-confirmed counterexample
\* exists.
C3_OnlyCpuConfirmedCounted ==
    /\ \A j \in 1..Len(gpu.printed) :
          /\ find_solution(gpu.printed[j]).a = 0
          /\ \E k \in 1..Len(gpu.handled) :
                gpu.handled[k].n = gpu.printed[j] /\ gpu.handled[k].found = 0
    /\ gpu.cpu_verified_counterexamples = Cardinality(GpuConfirmed)
    /\ Len(gpu.printed) = Cardinality(GpuConfirmed)
    /\ gpu.gpu_false_positives = Cardinality(GpuFalseNegatives)
    /\ (gpu.pc = "exit" /\ gpu.searched) =>
          Len(gpu.handled) = gpu.n_end - gpu.n_start
    /\ gpu.pc = "exit" => (gpu.code = 2 <=> Cardinality(GpuConfirmed) > 0)

\* a finished run in which a false negative (found = 0 for n = 1) was
\* followed by a confirmed counterexample (n = 0): exit code 2
C3_Witness ==
    /\ gpu.pc = "exit"
    /\ gpu.code = 2
    /\ gpu.gpu_false_positives = 1
    /\ gpu.printed = <<0>>
    /\ Len(gpu.handled) = 3
    /\ gpu.handled[1] = [n |-> 1, found |-> 0]

\* the positions of a call in the history
GpuCallsOf(name) == {k \in 1..Len(gpu.calls) : gpu.calls[k] = name}

GpuInitSucceeded == GpuCallsOf("metal_init:true") # {}

\* C16: metal_search_batch is called only after a successful metal_init,
\* never after metal_cleanup, and only when the previous dispatch has
\* returned; metal_cleanup is the last call, and is made exactly once on
\* every exit that follows a successful metal_init (and never otherwise).
C16_DeviceLifeCycle ==
    /\ \A k \in GpuCallsOf("metal_search_batch") :
          /\ \E j \in 1..(k - 1) : gpu.calls[j] = "metal_init:true"
          /\ \A j \in 1..(k - 1) : gpu.calls[j] # "metal_cleanup"
          /\ gpu.calls[k - 1] \in {"metal_init:true", "return"}
    /\ \A k \in GpuCallsOf("return") :
          k > 1 /\ gpu.calls[k - 1] = "metal_search_batch"
    /\ \A k \in GpuCallsOf("metal_cleanup") :
          GpuInitSucceeded /\ k = Len(gpu.calls) /\ gpu.pc = "exit"
    /\ \A k \in GpuCallsOf("metal_init:true") \cup GpuCallsOf("metal_init:false") :
          k = 1
    /\ (gpu.pc = "exit" /\ GpuInitSucceeded) =>
          Cardinality(GpuCallsOf("metal_cleanup")) = 1
    /\ gpu.pc = "dispatch" =>
          gpu.calls[Len(gpu.calls)] = "metal_search_batch"
    /\ gpu.pc \in {"search", "verify"} =>
          gpu.calls[Len(gpu.calls)] = "return"

\* a finished search: the self-test dispatch, two batches, one cleanup
C16_Witness ==
    /\ gpu.pc = "exit"
    /\ gpu.searched
    /\ Cardinality(GpuCallsOf("metal_search_batch")) = 3
    /\ Cardinality(GpuCallsOf("return")) = 3
    /\ gpu.calls[Len(gpu.calls)] = "metal_cleanup"

\* C27: for every --batch-size the driver accepts, run_gpu_search hands
\* the n of [n_start, n_end) to the device in increasing order, each once,
\* in batches of 1..batch_size values, it never stays in the batch loop
\* without advancing, and it returns with processed = n_end - n_start.
C27_EveryNSubmittedOnce ==
    gpu.searched =>
        /\ gpu.submitted = [k \in 1..(gpu.current_n - gpu.n_start) |->
                               gpu.n_start + k - 1]
        /\ gpu.current_n <= gpu.n_end
        /\ gpu.pc \in {"dispatch", "verify"} =>
              gpu.batch_count >= 1 /\ gpu.batch_count <= gpu.batch_size
        /\ ~(gpu.pc = "hang" /\ gpu.batch_count = 0)
        /\ gpu.pc = "exit" =>
              /\ gpu.processed = gpu.n_end - gpu.n_start
              /\ Len(gpu.submitted) = gpu.n_end - gpu.n_start

\* C17: a run that ends on a resource error (GPU unavailable, metal_init
\* failure, batch buffers not allocated) has written to stderr and exits
\* with code 1.
C17_ResourceErrorsExit1 ==
    (/\ gpu.pc = "exit"
     /\ gpu.error \in {"gpu_unavailable", "metal_init", "batch_buffers"}) =>
        /\ gpu.stderr
        /\ gpu.code = 1

(***************************************************************************)
(* batch_sieve.h: the batched verifier.  The arrays solved, solutions_a    *)
(* and solutions_p are functions on 0..cap-1, cap the size they were       *)
(* allocated with; the composite bitmap is the set of its set bits.        *)
(***************************************************************************)
BATCH_SMALL_PRIMES ==
    << 2, 3, 5, 7, 11, 13, 17, 19, 23, 29, 31, 37, 41, 43, 47, 53, 59, 61, 67, 71,
       73, 79, 83, 89, 97, 101, 103, 107, 109, 113, 127, 131, 137, 139, 149, 151,
       157, 163, 167, 173, 179, 181, 191, 193, 197, 199, 211, 223, 227, 229, 233,
       239, 241, 251, 257, 263, 269, 271, 277, 281, 283, 293, 307, 311, 313, 317,
       331, 337, 347, 349, 353, 359, 367, 373, 379, 383, 389, 397, 401, 409, 419,
       421, 431, 433, 439, 443, 449, 457, 461, 463, 467, 479, 487, 491, 499, 503,
       509, 521, 523, 541, 547, 557, 563, 569, 571, 577, 587, 593, 599, 601, 607,
       613, 617, 619, 631, 641, 643, 647, 653, 659, 661, 673, 677, 683, 691, 701,
       709, 719, 727, 733, 739, 743, 751, 757, 761, 769, 773, 787, 797, 809, 811,
       821, 823, 827, 829, 839, 853, 857, 859, 863, 877, 881, 883, 887 >>

BATCH_SMALL_PRIMES_COUNT == 154

\* "for (t = 0; t < q; t++) if ((4 * t) % q == 1) { inv4 = t; break; }"
batch_inv4(q) ==
    IF \A t \in 0..(q - 1) : (4 * t) % q # 1 THEN 0
    ELSE CHOOSE t \in 0..(q - 1) :
             /\ (4 * t) % q = 1
             /\ \A u \in 0..(t - 1) : (4 * u) % q # 1

\* inv4 for each entry of the table (it depends on q only)
batch_inv4_of == [i \in 1..BATCH_SMALL_PRIMES_COUNT |->
                     batch_inv4(BATCH_SMALL_PRIMES[i])]

\* The statistics counters mr_tests_saved and mr_tests_done are followed up
\* to StatCap and stay there: they are only printed, and a batch_process
\* that never returns would otherwise count without end.
StatCap == 6

stat_add(counter, k) == IF counter + k > StatCap THEN StatCap ELSE counter + k

\* batch_sieve_create when the allocations succeed.  solved, solutions_a
\* and solutions_p come from calloc; composite comes from malloc and is not
\* written: it holds whatever the block held (garbage).
batch_sieve_create(n_start, batch_size, garbage) ==
    [n_start        |-> n_start,
     batch_size     |-> batch_size,
     cap            |-> batch_size,
     solved         |-> [idx \in 0..(batch_size - 1) |-> 0],
     solutions_a    |-> [idx \in 0..(batch_size - 1) |-> 0],
     solutions_p    |-> [idx \in 0..(batch_size - 1) |-> 0],
     composite      |-> garbage,
     total_solved   |-> 0,
     mr_tests_saved |-> 0,
     mr_tests_done  |-> 0]

\* memset(array, 0, bs->batch_size * sizeof(element))
batch_memset0(array, cap, batch_size) ==
    [idx \in 0..(cap - 1) |-> IF idx < batch_size THEN 0 ELSE array[idx]]

batch_sieve_reset(b, n_start) ==
    [b EXCEPT !.n_start = n_start,
              !.total_solved = 0,
              !.mr_tests_saved = 0,
              !.mr_tests_done = 0,
              !.solved = batch_memset0(b.solved, b.cap, b.batch_size),
              !.solutions_a = batch_memset0(b.solutions_a, b.cap, b.batch_size),
              !.solutions_p = batch_memset0(b.solutions_p, b.cap, b.batch_size)]

batch_is_composite(b, idx) ==
    IF idx >= b.batch_size THEN TRUE ELSE idx \in b.composite

\* "p_mod = p_start % q; first_idx = (inv4 * ((q - p_mod) % q)) % q" for
\* the i-th prime of the table
batch_first_idx(p_start, i) ==
    LET q     == BATCH_SMALL_PRIMES[i]
        p_mod == p_start % q
    IN  (batch_inv4_of[i] * ((q - p_mod) % q)) % q

\* the marking loop without the test "p_val != q"
batch_marks_with_q(b, p_start, i) ==
    LET q         == BATCH_SMALL_PRIMES[i]
        first_idx == batch_first_idx(p_start, i)
    IN  IF q = 2 THEN {}
        ELSE {idx \in {first_idx + k * q :
                         k \in 0..((b.batch_size - 1 - first_idx) \div q)} :
                 b.solved[idx] = 0}

\* the positions the marking loop of batch_sieve_for_a marks for the i-th
\* prime of the table (none for q = 2)
batch_marks(b, p_start, i) ==
    LET q         == BATCH_SMALL_PRIMES[i]
        first_idx == batch_first_idx(p_start, i)
    IN  IF q = 2 THEN {}
        ELSE {idx \in {first_idx + k * q :
                         k \in 0..((b.batch_size - 1 - first_idx) \div q)} :
                 /\ b.solved[idx] = 0
                 /\ Add(p_start, Mul(4, idx)) # q}

batch_sieve_for_a(b, a) ==
    LET a_sq    == Mul(a, a)
        N_start == Add(Mul(8, b.n_start), 3)
        p_start == Sub(N_start, a_sq) \div 2
    IN  IF a_sq >= N_start THEN b
        ELSE [b EXCEPT
                !.composite =
                    UNION {batch_marks(b, p_start, i) :
                             i \in 1..BATCH_SMALL_PRIMES_COUNT},
                !.mr_tests_saved =
                    stat_add(b.mr_tests_saved,
                             Cardinality({<<i, idx>> \in
                                            (1..BATCH_SMALL_PRIMES_COUNT)
                                            \X (0..(b.batch_size - 1)) :
                                            idx \in batch_marks(b, p_start, i)}))]

\* the candidate batch_check_remaining computes for idx
batch_candidate(b, a, idx) ==
    Sub(Add(Mul(8, Add(b.n_start, idx)), 3), Mul(a, a)) \div 2

\* idx reaches "bs->mr_tests_done++" in batch_check_remaining
batch_tested(b, a, idx) ==
    /\ b.solved[idx] = 0
    /\ ~batch_is_composite(b, idx)
    /\ ~(Mul(a, a) >= Add(Mul(8, Add(b.n_start, idx)), 3))
    /\ ~(batch_candidate(b, a, idx) < 2)

batch_check_remaining(b, a) ==
    LET tested == {idx \in 0..(b.batch_size - 1) : batch_tested(b, a, idx)}
        found  == {idx \in tested :
                      is_prime_fj64_fast(batch_candidate(b, a, idx))}
    IN  [b EXCEPT
           !.solved = [idx \in 0..(b.cap - 1) |->
                          IF idx \in found THEN 1 ELSE b.solved[idx]],
           !.solutions_a = [idx \in 0..(b.cap - 1) |->
                          IF idx \in found THEN a ELSE b.solutions_a[idx]],
           !.solutions_p = [idx \in 0..(b.cap - 1) |->
                          IF idx \in found THEN batch_candidate(b, a, idx)
                          ELSE b.solutions_p[idx]],
           !.total_solved = b.total_solved + Cardinality(found),
           !.mr_tests_done = stat_add(b.mr_tests_done, Cardinality(tested))]

\* batch_process: a_max for the largest n of the batch
batch_a_max(b) ==
    LET r == isqrt64(Add(Mul(8, Sub(Add(b.n_start, b.batch_size), 1)), 3))
    IN  IF r = Diverges THEN Diverges ELSE odd_a_max(r)

\* batch_process leaves its loop after batch_check_remaining(b, a): all n
\* are solved, or "a >= 1" fails for the next a
batch_process_done(b, a) ==
    \/ batch_check_remaining(b, a).total_solved >= b.batch_size
    \/ ~(Sub(a, 2) >= 1)

(***************************************************************************)
(* batch_sieve_for_a on its own: one call on a new BatchSieve, for a range *)
(* of n_start, batch_size and odd a.  bs.pc is "for_a" (before the call)   *)
(* or "for_a_done".                                                        *)
(***************************************************************************)
\* n_start is 1..ForAMaxStart, a the odd numbers up to ForAMaxA, batch_size
\* 1..ForAMaxBatch
ForAMaxStart == 60
ForAMaxA == 21
ForAMaxBatch == 6

ForACalls ==
    UNION {{[pc |-> "for_a", a |-> a,
             b |-> batch_sieve_create(n_start, batch_size, garbage)] :
               a \in {x \in 1..ForAMaxA : x % 2 = 1},
               batch_size \in 1..ForAMaxBatch, garbage \in {{}, {0}}} :
           n_start \in 1..ForAMaxStart}

BatchSieveForACall ==
    /\ bs.pc = "for_a"
    /\ bs' = [bs EXCEPT !.pc = "for_a_done",
                        !.b = batch_sieve_for_a(bs.b, bs.a)]
    /\ UNCHANGED <<sv, ps, gpu, cpu>>

InitForA ==
    /\ sv = SvIdle
    /\ ps = PsIdle
    /\ bs \in ForACalls
    /\ gpu = GpuIdle
    /\ cpu = CpuIdle

NextForA == BatchSieveForACall

SpecForA == InitForA /\ [][NextForA]_vars

\* the call went past "if (a_sq >= N_start) return;"
ForASieved == bs.a * bs.a < 8 * bs.b.n_start + 3

\* the indices the call marked: the bitmap after a call that sieved (it was
\* cleared first), nothing after a call that returned at once
ForAMarked == IF ForASieved THEN bs.b.composite ELSE {}

\* p for idx, and p for idx 0
ForAP(idx) == (8 * (bs.b.n_start + idx) + 3 - bs.a * bs.a) \div 2

\* C20: an index is marked by batch_sieve_for_a only if its p is divisible
\* by a prime q of the table (3..887) other than p itself, and for each such
\* q the first_idx computed is the smallest i >= 0 with
\* p_start + 4i = 0 (mod q).
C20_SieveNeverDiscardsPrime ==
    bs.pc = "for_a_done" =>
        /\ \A idx \in ForAMarked :
              /\ \E i \in 2..BATCH_SMALL_PRIMES_COUNT :
                    /\ ForAP(idx) % BATCH_SMALL_PRIMES[i] = 0
                    /\ ForAP(idx) # BATCH_SMALL_PRIMES[i]
              /\ ~IsPrime(ForAP(idx))
        /\ ForASieved =>
              \A i \in 2..BATCH_SMALL_PRIMES_COUNT :
                 LET q == BATCH_SMALL_PRIMES[i]
                     f == batch_first_idx(ForAP(0), i)
                 IN  /\ (ForAP(0) + 4 * f) % q = 0
                     /\ \A j \in 0..(f - 1) : (ForAP(0) + 4 * j) % q # 0

\* a call that marked the index of p = 25 (q = 5) and left the one of
\* p = 29 (q = 29 is p itself)
C20_Witness ==
    /\ bs.pc = "for_a_done"
    /\ ForASieved
    /\ bs.b.batch_size >= 2
    /\ \E idx \in ForAMarked : ForAP(idx) = 25
    /\ \E idx \in 0..(bs.b.batch_size - 1) :
          ForAP(idx) = 29 /\ idx \notin ForAMarked

(***************************************************************************)
(* search_batched.c: the batched driver.  bs.pc is "idle", "loop" (top of  *)
(* the batch loop), "sieve" and "check" (in the loop of batch_process,      *)
(* before each of its two calls), "after" (batch_process has returned),    *)
(* "hang" or "exit".                                                       *)
(***************************************************************************)
\* the ranges searched start at 0..BatchMaxStart and hold up to
\* BatchMaxTotal n
BatchMaxStart == 4
BatchMaxTotal == 5
\* --batch-size is 1..BatchMaxSize; the driver raises it to BatchFloor
\* (1024 in the program)
BatchMaxSize == 4
BatchFloor == 3

\* the re-verification loop of main for one unsolved n:
\* "for (a = a_max; a >= 1; a -= 2)" passes through every odd a again and
\* again (a is unsigned and odd, so a >= 1 always holds) and is left only
\* by the break
batched_reverify_hit(N, a) ==
    /\ ~(Mul(a, a) > Sub(N, 4))
    /\ Sub(N, Mul(a, a)) \div 2 >= 2
    /\ is_prime_64(Sub(N, Mul(a, a)) \div 2)

batched_reverify(n) ==
    LET N == Add(Mul(8, n), 3)
    IN  IF isqrt64(N) = Diverges THEN "hang"
        ELSE IF \E a \in 1..(W - 1) : a % 2 = 1 /\ batched_reverify_hit(N, a)
        THEN "found"
        ELSE "hang"

\* the return value of main
batched_exit_code(total_counterexamples) ==
    IF total_counterexamples > 0 THEN 2 ELSE 0

\* a driver that takes every batch to be full
actual_batch_size_full(batch_start, batch_size, n_end) == batch_size

\* "actual_batch_size = batch_size; if (batch_start + batch_size > n_end)
\* actual_batch_size = n_end - batch_start;"
actual_batch_size(batch_start, batch_size, n_end) ==
    IF Add(batch_start, batch_size) > n_end
    THEN Sub(n_end, batch_start) ELSE batch_size

BatchedStart(n_start, n_end, batch_size, garbage) ==
    [pc |-> "loop", n_start |-> n_start, n_end |-> n_end,
     batch_size |-> batch_size, batch_start |-> n_start, actual |-> 0,
     b |-> batch_sieve_create(n_start, batch_size, garbage),
     a |-> 0, fresh |-> TRUE, garbage |-> garbage,
     total_solved |-> 0, total_mr_saved |-> 0, total_mr_done |-> 0,
     total_counterexamples |-> 0, batches_processed |-> 0, code |-> 0]

BatchedExited(code) == [pc |-> "exit", code |-> code]

\* main up to the batch loop
BatchedMain ==
    /\ bs.pc = "idle"
    /\ \E n_start \in 0..BatchMaxStart, total \in 0..BatchMaxTotal,
          size_arg \in 1..BatchMaxSize,
          unknown_option \in BOOLEAN, alloc_ok \in BOOLEAN :
         LET n_end      == n_start + total
             batch_size == IF size_arg < BatchFloor THEN BatchFloor
                           ELSE size_arg
         IN  \E garbage \in SUBSET (0..(batch_size - 1)) :
               bs' = IF unknown_option \/ n_start >= n_end \/ ~alloc_ok
                     THEN BatchedExited(1)
                     ELSE BatchedStart(n_start, n_end, batch_size, garbage)
    /\ UNCHANGED <<sv, ps, gpu, cpu>>

\* the top of the batch loop: reset, set the size, enter batch_process
BatchedBegin ==
    /\ bs.pc = "loop"
    /\ bs.batch_start < bs.n_end
    /\ LET actual == actual_batch_size(bs.batch_start, bs.batch_size, bs.n_end)
           b      == [batch_sieve_reset(bs.b, bs.batch_start)
                        EXCEPT !.batch_size = actual]
       IN  bs' = IF batch_a_max(b) = Diverges
                 THEN [bs EXCEPT !.pc = "hang", !.b = b, !.actual = actual]
                 ELSE [bs EXCEPT !.pc = "sieve", !.b = b, !.actual = actual,
                                 !.a = batch_a_max(b)]
    /\ UNCHANGED <<sv, ps, gpu, cpu>>

\* batch_process, loop body: batch_sieve_for_a(bs, a)
BatchSieveForA ==
    /\ bs.pc = "sieve"
    /\ bs' = [bs EXCEPT !.pc = "check", !.b = batch_sieve_for_a(bs.b, bs.a)]
    /\ UNCHANGED <<sv, ps, gpu, cpu>>

\* batch_process, loop body: batch_check_remaining(bs, a), the early exit
\* and the step "a -= 2" with the test "a >= 1"
BatchCheckRemaining ==
    /\ bs.pc = "check"
    /\ bs' = [bs EXCEPT
                !.b = batch_check_remaining(bs.b, bs.a),
                !.pc = IF batch_process_done(bs.b, bs.a) THEN "after"
                       ELSE "sieve",
                !.a = IF batch_process_done(bs.b, bs.a) THEN bs.a
                      ELSE Sub(bs.a, 2)]
    /\ UNCHANGED <<sv, ps, gpu, cpu>>

\* after batch_process: statistics, re-verification of the unsolved n
BatchedAfter ==
    /\ bs.pc = "after"
    /\ LET unsolved == IF bs.b.total_solved < bs.actual
                       THEN {idx \in 0..(bs.actual - 1) : bs.b.solved[idx] = 0}
                       ELSE {}
           verdict  == [idx \in unsolved |->
                           batched_reverify(Add(bs.batch_start, idx))]
       IN  bs' = IF \E idx \in unsolved : verdict[idx] = "hang"
                 THEN [bs EXCEPT !.pc = "hang"]
                 ELSE [bs EXCEPT
                         !.pc = "loop",
                         !.fresh = FALSE,
                         !.batch_start = bs.batch_start + bs.batch_size,
                         !.batches_processed = bs.batches_processed + 1,
                         !.total_mr_saved = bs.total_mr_saved
                                            + bs.b.mr_tests_saved,
                         !.total_mr_done = bs.total_mr_done
                                           + bs.b.mr_tests_done,
                         !.total_solved =
                             bs.total_solved + bs.b.total_solved
                             + Cardinality({idx \in unsolved :
                                              verdict[idx] = "found"}),
                         !.total_counterexamples =
                             bs.total_counterexamples
                             + Cardinality({idx \in unsolved :
                                              verdict[idx] = "none"})]
    /\ UNCHANGED <<sv, ps, gpu, cpu>>

\* the batch loop is left: main returns
BatchedExit ==
    /\ bs.pc = "loop"
    /\ ~(bs.batch_start < bs.n_end)
    /\ bs' = [bs EXCEPT !.pc = "exit",
                        !.code = batched_exit_code(bs.total_counterexamples)]
    /\ UNCHANGED <<sv, ps, gpu, cpu>>

InitBatched ==
    /\ sv = SvIdle
    /\ ps = PsIdle
    /\ bs = BsIdle
    /\ gpu = GpuIdle
    /\ cpu = CpuIdle

NextBatched ==
    \/ BatchedMain
    \/ BatchedBegin
    \/ BatchSieveForA
    \/ BatchCheckRemaining
    \/ BatchedAfter
    \/ BatchedExit

SpecBatched == InitBatched /\ [][NextBatched]_vars

\* the driver is a sequential program: once started it keeps taking its
\* next step
BatchedStep ==
    \/ BatchedBegin
    \/ BatchSieveForA
    \/ BatchCheckRemaining
    \/ BatchedAfter
    \/ BatchedExit

FairSpecBatched == SpecBatched /\ WF_vars(BatchedStep)

\* what batch_process left for idx agrees with find_solution(n_start + idx)
batch_agrees(b, idx) ==
    LET r == find_solution(Add(b.n_start, idx))
    IN  /\ (b.solved[idx] = 1) <=> (r.a # 0)
        /\ b.solved[idx] = 1 =>
             /\ b.solutions_a[idx] = r.a
             /\ b.solutions_p[idx] = r.p

\* C4: for n_start >= 1, after batch_process on a fresh or a reused
\* BatchSieve, each index has solved[idx] = 1 exactly when
\* find_solution(n_start + idx) # 0, and then holds the same (a, p).
C4_BatchAgreesWithSolver ==
    (bs.pc = "after" /\ bs.b.n_start >= 1) =>
        \A idx \in 0..(bs.b.batch_size - 1) : batch_agrees(bs.b, idx)

\* C18: every bit batch_check_remaining consults for a was set by the sieve
\* for that a in this batch: the bitmap it reads holds, at the unsolved
\* indices that have a candidate p >= 2 for a, only the marks
\* batch_sieve_for_a makes for a on a cleared bitmap (stated for
\* n_start >= 1).
C18_BitmapFreshForEveryA ==
    (bs.pc = "check" /\ bs.b.n_start >= 1) =>
        \A idx \in 0..(bs.b.batch_size - 1) :
            (/\ bs.b.solved[idx] = 0
             /\ batch_is_composite(bs.b, idx)
             /\ ~(Mul(bs.a, bs.a) >= Add(Mul(8, Add(bs.b.n_start, idx)), 3))
             /\ ~(batch_candidate(bs.b, bs.a, idx) < 2)) =>
                idx \in batch_sieve_for_a([bs.b EXCEPT !.composite = {}],
                                          bs.a).composite

\* C19: the a-loop of batch_process handles the odd a from a_max_for_batch
\* down to 1 and then stops: the a of a pass is never outside
\* 1..a_max_for_batch, also when some n is unsolved after the pass for 1.
C19_ALoopStopsAfterOne ==
    bs.pc \in {"sieve", "check"} =>
        /\ bs.a >= 1
        /\ bs.a <= batch_a_max(bs.b)

\* C21: the oracle is called only on odd values > 127: every idx that
\* batch_check_remaining hands to is_prime_fj64_fast has such a candidate.
C21_OracleCalledAbove127 ==
    (bs.pc = "check" /\ bs.b.n_start >= 1) =>
        \A idx \in 0..(bs.b.batch_size - 1) :
            batch_tested(bs.b, bs.a, idx) =>
                /\ batch_candidate(bs.b, bs.a, idx) % 2 = 1
                /\ batch_candidate(bs.b, bs.a, idx) > 127

\* C5: when the range holds an n without solution, the driver re-validates
\* it, the re-validation terminates, and the driver eventually exits with
\* code 2.
C5_CounterexampleLeadsToExit2 ==
    (bs.pc = "loop" /\ \E n \in bs.n_start..(bs.n_end - 1) : ValidAs(n) = {})
        ~> (bs.pc = "exit" /\ bs.code = 2)

\* C15: when the driver has finished a range, total_solved =
\* (n_end - n_start) - total_counterexamples, also when the last batch was
\* shorter than batch_size.
C15_EveryNCountedOnce ==
    (bs.pc = "exit" /\ bs.code # 1) =>
        bs.total_solved = (bs.n_end - bs.n_start) - bs.total_counterexamples

\* a finished range of several batches, the last one short
C15_Witness ==
    /\ bs.pc = "exit"
    /\ bs.code # 1
    /\ bs.batches_processed >= 2
    /\ bs.actual < bs.batch_size
    /\ bs.total_solved = bs.n_end - bs.n_start

\* main on a range that ends within BatchTopSpan of the end of the valid
\* range n < 2^61 (here W / 8)
BatchTopSpan == 10

BatchedMainTop ==
    /\ bs.pc = "idle"
    /\ \E n_start \in (W \div 8 - BatchTopSpan)..(W \div 8 - 1),
          total \in 0..BatchMaxTotal, size_arg \in 1..BatchMaxSize,
          unknown_option \in BOOLEAN, alloc_ok \in BOOLEAN :
         LET n_end      == n_start + total
             batch_size == IF size_arg < BatchFloor THEN BatchFloor
                           ELSE size_arg
         IN  /\ n_end <= W \div 8
             /\ \E garbage \in SUBSET (0..(batch_size - 1)) :
                   bs' = IF unknown_option \/ n_start >= n_end \/ ~alloc_ok
                         THEN BatchedExited(1)
                         ELSE BatchedStart(n_start, n_end, batch_size, garbage)
    /\ UNCHANGED <<sv, ps, gpu, cpu>>

NextBatchedAll == BatchedMainTop \/ NextBatched

\* the batched driver on small n and on n near the end of the valid range
SpecBatchedAll == InitBatched /\ [][NextBatchedAll]_vars

\* the indices of the batch with solved[idx] = 1
BatchSolved(b) == {idx \in 0..(b.batch_size - 1) : b.solved[idx] = 1}

\* the result arrays of a batch are consistent
BatchResultsConsistent(b) ==
    /\ b.total_solved = Cardinality(BatchSolved(b))
    /\ b.total_solved <= b.batch_size
    /\ \A idx \in BatchSolved(b) :
          /\ b.solutions_a[idx] % 2 = 1
          /\ IsPrime(b.solutions_p[idx])
          /\ b.solutions_a[idx] * b.solutions_a[idx] + 2 * b.solutions_p[idx]
                = 8 * (b.n_start + idx) + 3

\* C29: in every state reached during batch_process total_solved is the
\* number of indices with solved[idx] = 1 (so at most batch_size) and
\* every solved index holds an odd a and a prime p with
\* a*a + 2p = 8(n_start + idx) + 3; a step of batch_process leaves a solved
\* index solved and its solutions_a and solutions_p as they are.
C29_ResultArraysConsistent ==
    [][(bs'.pc \in {"sieve", "check", "after"} =>
            BatchResultsConsistent(bs'.b))
       /\ (bs.pc \in {"sieve", "check"} =>
              \A idx \in BatchSolved(bs.b) :
                 /\ bs'.b.solved[idx] = 1
                 /\ bs'.b.solutions_a[idx] = bs.b.solutions_a[idx]
                 /\ bs'.b.solutions_p[idx] = bs.b.solutions_p[idx])]_vars

(***************************************************************************)
(* search.c: the CPU range driver.  cpu.pc is "idle", "search" (inside the *)
(* parallel region of run_search_parallel) or "exit".  Each worker of      *)
(* the region is at "top" (loop condition and flag test), "call" (about to *)
(* call find_solution_parallel), "flag" (it has found a counterexample,    *)
(* its store to found_counterexample is on its way), "print" (before the   *)
(* critical section), "done" or "hang".                                    *)
(***************************************************************************)
\* the ranges searched start at 0..CpuMaxStart and hold up to CpuMaxTotal n,
\* --threads is 0..CpuMaxThreads, omp_get_max_threads() is CpuCores
CpuMaxStart == 2
CpuMaxTotal == 4
CpuMaxThreads == 3
CpuCores == 2

MAX_THREADS == 256

\* one more range: [0, 1.5 * 2^61) in three chunks; its third chunk starts
\* at n = 2^61, where 8n + 3 wraps to 3
CpuFarRange == [n_start |-> 0, n_end |-> 3 * (W \div 16), threads |-> 3]

CpuRuns ==
    {[n_start |-> s, n_end |-> s + t, threads |-> k] :
        s \in 0..CpuMaxStart, t \in 0..CpuMaxTotal, k \in 0..CpuMaxThreads}
    \cup {CpuFarRange}

\* main, "Determine number of threads" (OpenMP build)
cpu_num_threads(arg) ==
    LET requested == IF arg <= 0 THEN CpuCores ELSE arg
    IN  IF requested > MAX_THREADS THEN MAX_THREADS ELSE requested

\* verify_known_solutions
known == <<[n |-> 1, a |-> 1, p |-> 5], [n |-> 2, a |-> 3, p |-> 5],
           [n |-> 3, a |-> 1, p |-> 13], [n |-> 4, a |-> 5, p |-> 5]>>

verify_known_solutions(sieve) ==
    \A i \in 1..4 :
        /\ Add(Mul(8, known[i].n), 3)
             = Add(Mul(known[i].a, known[i].a), Mul(2, known[i].p))
        /\ is_prime_64(known[i].p)
        /\ find_solution_parallel(known[i].n, sieve).a > 0

\* a chunk size rounded down
cpu_chunk_size_floor(total, nthreads) == total \div nthreads

\* run_search_parallel, "Calculate this thread's range"
cpu_chunk_size(total, nthreads) == Add(total, nthreads - 1) \div nthreads

cpu_my_end(n_start, n_end, tid, nthreads) ==
    LET chunk_size == cpu_chunk_size(Sub(n_end, n_start), nthreads)
        my_end     == Add(Add(n_start, Mul(tid, chunk_size)), chunk_size)
    IN  IF my_end > n_end THEN n_end ELSE my_end

cpu_my_start(n_start, n_end, tid, nthreads) ==
    LET chunk_size == cpu_chunk_size(Sub(n_end, n_start), nthreads)
        my_start   == Add(n_start, Mul(tid, chunk_size))
    IN  IF my_start >= n_end THEN cpu_my_end(n_start, n_end, tid, nthreads)
        ELSE my_start

\* the test "if (found_counterexample) break;" on the value read
cpu_sees_flag_ignored(flag) == FALSE

cpu_sees_flag(flag) == flag # 0

\* "reduction(+:total_counterexamples)" over the workers 0..(k - 1)
RECURSIVE cpu_reduction(_, _)
cpu_reduction(w, k) ==
    IF k = 0 THEN 0
    ELSE cpu_reduction(w, k - 1) + w[k - 1].local_counterexamples

\* the return value of main
cpu_exit_code_always_zero(total_counterexamples) == 0

cpu_exit_code(total_counterexamples) ==
    IF total_counterexamples > 0 THEN 2 ELSE 0

CpuWorker(n_start, n_end, tid, nthreads) ==
    [pc |-> "top",
     n |-> cpu_my_start(n_start, n_end, tid, nthreads),
     my_end |-> cpu_my_end(n_start, n_end, tid, nthreads),
     local_counterexamples |-> 0, local_progress |-> 0,
     late_starts |-> 0, late_calls |-> 0]

\* main has returned; inputs are kept for reference
CpuExited(cfg, code) ==
    [pc |-> "exit", code |-> code, cfg |-> cfg, searched |-> FALSE,
     iterations |-> 0, reported |-> {}, total_counterexamples |-> 0]

\* main up to the parallel region of run_search_parallel: arguments, sieve,
\* self-test, then the team of workers
CpuMain ==
    /\ cpu.pc = "idle"
    /\ \E run \in CpuRuns, help \in BOOLEAN, unknown_option \in BOOLEAN,
          sieve_threshold \in {0, SolveSieveSmall}, alloc_ok \in BOOLEAN :
         LET cfg == [help |-> help, unknown_option |-> unknown_option,
                     n_start |-> run.n_start, n_end |-> run.n_end,
                     threads |-> run.threads,
                     sieve_threshold |-> sieve_threshold,
                     alloc_ok |-> alloc_ok]
             num_threads == cpu_num_threads(run.threads)
             sieve == SieveOf(sieve_threshold)
         IN  cpu' =
               IF help THEN CpuExited(cfg, 0)
               ELSE IF unknown_option THEN CpuExited(cfg, 1)
               ELSE IF run.n_start >= run.n_end THEN CpuExited(cfg, 1)
               ELSE IF sieve_threshold > 0 /\ ~alloc_ok THEN CpuExited(cfg, 1)
               ELSE IF ~verify_known_solutions(sieve) THEN CpuExited(cfg, 1)
               ELSE [pc |-> "search", code |-> 0, cfg |-> cfg,
                     searched |-> TRUE, iterations |-> 0, reported |-> {},
                     total_counterexamples |-> 0,
                     num_threads |-> num_threads, sieve |-> sieve,
                     found_counterexample |-> 0,
                     w |-> [tid \in 0..(num_threads - 1) |->
                              CpuWorker(run.n_start, run.n_end, tid,
                                        num_threads)]]
    /\ UNCHANGED <<sv, ps, bs, gpu>>

\* "for (n = my_start; n < my_end; n++) { if (found_counterexample) break;"
CpuWorkerTop(tid) ==
    /\ cpu.pc = "search"
    /\ cpu.w[tid].pc = "top"
    /\ cpu' = IF ~(cpu.w[tid].n < cpu.w[tid].my_end)
                 \/ cpu_sees_flag(cpu.found_counterexample)
              THEN [cpu EXCEPT !.w[tid].pc = "done"]
              ELSE [cpu EXCEPT
                      !.w[tid].pc = "call",
                      !.w[tid].late_starts =
                          @ + cpu.found_counterexample]
    /\ UNCHANGED <<sv, ps, bs, gpu>>

\* "a = find_solution_parallel(n, tid, sieve)" and the rest of the body
CpuWorkerCall(tid) ==
    /\ cpu.pc = "search"
    /\ cpu.w[tid].pc = "call"
    /\ LET r == find_solution_parallel(cpu.w[tid].n, cpu.sieve)
       IN  cpu' =
             IF r.a = Diverges THEN [cpu EXCEPT !.w[tid].pc = "hang"]
             ELSE IF r.a = 0
             THEN [cpu EXCEPT
                     !.iterations = @ + 1,
                     !.w[tid].pc = "flag",
                     !.w[tid].local_counterexamples = @ + 1,
                     !.w[tid].late_calls = @ + cpu.found_counterexample]
             ELSE [cpu EXCEPT
                     !.iterations = @ + 1,
                     !.w[tid].pc = "top",
                     !.w[tid].local_progress = @ + 1,
                     !.w[tid].n = Add(@, 1),
                     !.w[tid].late_calls = @ + cpu.found_counterexample]
    /\ UNCHANGED <<sv, ps, bs, gpu>>

\* "found_counterexample = 1" reaches the shared variable
CpuWorkerFlag(tid) ==
    /\ cpu.pc = "search"
    /\ cpu.w[tid].pc = "flag"
    /\ cpu' = [cpu EXCEPT !.found_counterexample = 1, !.w[tid].pc = "print"]
    /\ UNCHANGED <<sv, ps, bs, gpu>>

\* the critical section that prints the counterexample, then "break"
CpuWorkerPrint(tid) ==
    /\ cpu.pc = "search"
    /\ cpu.w[tid].pc = "print"
    /\ cpu' = [cpu EXCEPT !.reported = @ \cup {cpu.w[tid].n},
                          !.w[tid].pc = "done"]
    /\ UNCHANGED <<sv, ps, bs, gpu>>

\* the end of the parallel region, the rest of main
CpuJoin ==
    /\ cpu.pc = "search"
    /\ \A tid \in 0..(cpu.num_threads - 1) : cpu.w[tid].pc = "done"
    /\ cpu' = [cpu EXCEPT
                 !.pc = "exit",
                 !.total_counterexamples =
                     cpu_reduction(cpu.w, cpu.num_threads),
                 !.code = cpu_exit_code(cpu_reduction(cpu.w, cpu.num_threads))]
    /\ UNCHANGED <<sv, ps, bs, gpu>>

InitCpu ==
    /\ sv = SvIdle
    /\ ps = PsIdle
    /\ bs = BsIdle
    /\ gpu = GpuIdle
    /\ cpu = CpuIdle

\* the workers of the team
CpuTids == IF cpu.pc = "search" THEN 0..(cpu.num_threads - 1) ELSE {}

NextCpu ==
    \/ CpuMain
    \/ \E tid \in CpuTids : CpuWorkerTop(tid)
    \/ \E tid \in CpuTids : CpuWorkerCall(tid)
    \/ \E tid \in CpuTids : CpuWorkerFlag(tid)
    \/ \E tid \in CpuTids : CpuWorkerPrint(tid)
    \/ CpuJoin

SpecCpu == InitCpu /\ [][NextCpu]_vars

\* the single-threaded run over [n_start, n_end): the first n at which
\* find_solution_parallel returns 0 or does not return
SeqEvents(cfg, sieve) ==
    {n \in cfg.n_start..(cfg.n_end - 1) :
        find_solution_parallel(n, sieve).a \in {0, Diverges}}

SeqFirst(cfg, sieve) ==
    CHOOSE n \in SeqEvents(cfg, sieve) : \A m \in SeqEvents(cfg, sieve) : n <= m

SeqTerminates(cfg, sieve) ==
    \/ SeqEvents(cfg, sieve) = {}
    \/ find_solution_parallel(SeqFirst(cfg, sieve), sieve).a = 0

SeqReported(cfg, sieve) ==
    IF SeqEvents(cfg, sieve) = {} THEN {} ELSE {SeqFirst(cfg, sieve)}

\* C6: a finished parallel run reports the same counterexample n values,
\* the same count and the same exit code as the single-threaded run over
\* the same range.
C6_ParallelEqualsSequential ==
    (cpu.pc = "exit" /\ cpu.searched
       /\ SeqTerminates(cpu.cfg, cpu.sieve)) =>
        /\ cpu.reported = SeqReported(cpu.cfg, cpu.sieve)
        /\ cpu.total_counterexamples
             = Cardinality(SeqReported(cpu.cfg, cpu.sieve))
        /\ cpu.code = cpu_exit_code(Cardinality(SeqReported(cpu.cfg, cpu.sieve)))

\* C7: once the terminate flag is set, the finding worker leaves its loop
\* without another iteration, no worker starts an iteration, and every
\* other worker completes at most one further find_solution call.
C7_CooperativeCancellation ==
    cpu.pc = "search" =>
        \A tid \in CpuTids :
            /\ cpu.w[tid].late_starts = 0
            /\ cpu.w[tid].late_calls <= 1
            /\ cpu.w[tid].local_counterexamples = 1 =>
                 cpu.w[tid].pc \in {"flag", "print", "done"}
            /\ (cpu.w[tid].late_calls = 1 /\ cpu.w[tid].pc = "top") =>
                 cpu.found_counterexample = 1

\* a worker has completed one call after the flag was set and has stopped
C7_Witness ==
    /\ cpu.pc = "search"
    /\ cpu.found_counterexample = 1
    /\ \E tid \in CpuTids :
         /\ cpu.w[tid].late_calls = 1
         /\ cpu.w[tid].local_counterexamples = 0
         /\ cpu.w[tid].pc = "done"
         /\ cpu.w[tid].n < cpu.w[tid].my_end

\* C8: main returns 1 without a search iteration when n_start >= n_end, on
\* an unknown flag, when the sieve cannot be allocated or when the
\* self-test fails; otherwise 2 if a counterexample was found in the
\* search and 0 if the search completed with none.
C8_ExitCodes ==
    (cpu.pc = "exit" /\ ~cpu.cfg.help) =>
        IF \/ cpu.cfg.unknown_option
           \/ cpu.cfg.n_start >= cpu.cfg.n_end
           \/ cpu.cfg.sieve_threshold > 0 /\ ~cpu.cfg.alloc_ok
           \/ ~verify_known_solutions(SieveOf(cpu.cfg.sieve_threshold))
        THEN cpu.code = 1 /\ cpu.iterations = 0 /\ ~cpu.searched
        ELSE /\ cpu.searched
             /\ cpu.code = IF cpu.reported # {} THEN 2 ELSE 0

\* a search that found a counterexample after solving other n has ended
C8_Witness ==
    /\ cpu.pc = "exit"
    /\ cpu.searched
    /\ cpu.code = 2
    /\ cpu.iterations > 1
    /\ cpu.cfg.sieve_threshold > 0

\* the chunk of worker tid in the run of the state
CpuChunkStart(tid) == cpu_my_start(cpu.cfg.n_start, cpu.cfg.n_end, tid, cpu.num_threads)

CpuChunkEnd(tid) == cpu_my_end(cpu.cfg.n_start, cpu.cfg.n_end, tid, cpu.num_threads)

RECURSIVE CpuProcessed(_)
CpuProcessed(k) ==
    IF k = 0 THEN 0
    ELSE CpuProcessed(k - 1) + cpu.w[k - 1].local_progress
                             + cpu.w[k - 1].local_counterexamples

\* C24: the chunks [my_start, my_end) are contiguous, pairwise disjoint and
\* cover [n_start, n_end) exactly, also with more workers than n; each
\* worker stays inside its chunk, and a run that ends without a
\* counterexample has processed each n once: the per-worker counts sum to
\* n_end - n_start.
C24_PartitionExact ==
    (cpu.pc \in {"search", "exit"} /\ cpu.searched) =>
        /\ CpuChunkStart(0) = cpu.cfg.n_start
        /\ CpuChunkEnd(cpu.num_threads - 1) = cpu.cfg.n_end
        /\ \A tid \in 0..(cpu.num_threads - 1) :
              /\ CpuChunkStart(tid) <= CpuChunkEnd(tid)
              /\ tid > 0 => CpuChunkStart(tid) = CpuChunkEnd(tid - 1)
              /\ CpuChunkStart(tid) <= cpu.w[tid].n
              /\ cpu.w[tid].n <= CpuChunkEnd(tid)
              /\ cpu.w[tid].n - CpuChunkStart(tid) = cpu.w[tid].local_progress
        /\ \A n \in cpu.cfg.n_start..(cpu.cfg.n_end - 1) :
              Cardinality({tid \in 0..(cpu.num_threads - 1) :
                             CpuChunkStart(tid) <= n /\ n < CpuChunkEnd(tid)})
                = 1
        /\ (cpu.pc = "exit" /\ cpu.total_counterexamples = 0) =>
              /\ CpuProcessed(cpu.num_threads) = cpu.cfg.n_end - cpu.cfg.n_start
              /\ cpu.iterations = cpu.cfg.n_end - cpu.cfg.n_start

\* a finished run of three workers on two n: the third chunk is empty
C24_Witness ==
    /\ cpu.pc = "exit"
    /\ cpu.searched
    /\ cpu.num_threads = 3
    /\ cpu.cfg.n_end - cpu.cfg.n_start = 2
    /\ cpu.total_counterexamples = 0
    /\ CpuChunkStart(2) = CpuChunkEnd(2)
    /\ cpu.w[0].local_progress = 1
    /\ cpu.w[1].local_progress = 1

(***************************************************************************)
(* run_search_parallel: the progress reports.  The team, the clock and the *)
(* unnamed OpenMP critical section, with find_solution_parallel reduced to *)
(* its outcome (a solution or none).  cpu.clock is the time since          *)
(* start_time, cpu.lock the worker inside the critical section (-1: none), *)
(* cpu.log what was written to stdout, line by line.  A worker is at       *)
(* "top", "call", "clock" (local_progress is a multiple of the period),    *)
(* "test" (elapsed is taken, before the unlocked test), "enter" (waiting   *)
(* for the critical section), "recheck", "store" (the line is printed),    *)
(* "flag", "ce_enter", "ce_line", "ce_rest" (in the counterexample report) *)
(* or "done".                                                              *)
(***************************************************************************)
\* workers, n per worker, the period of the clock test (2^18 in the
\* program), PROGRESS_SECONDS and the length of the run in clock ticks
ProgWorkers == 2
ProgChunk == 3
ProgEvery == 2
ProgSeconds == 2
ProgMaxClock == 4

\* "(local_progress & 0x3FFFF) == 0"
progress_period_hit(local_progress) == local_progress % ProgEvery = 0

\* "if (elapsed - last_report_time >= PROGRESS_SECONDS)", outside the
\* critical section
progress_due(elapsed, last_report_time) ==
    elapsed - last_report_time >= ProgSeconds

\* a critical section that prints without testing again
progress_due_in_critical_untested(elapsed, last_report_time) == TRUE

\* the same test inside the critical section
progress_due_in_critical(elapsed, last_report_time) ==
    elapsed - last_report_time >= ProgSeconds

ProgWorker == [pc |-> "top", left |-> ProgChunk, local_progress |-> 0, elapsed |-> 0]

ProgStart ==
    [pc |-> "progress", clock |-> 0, last_report_time |-> 0, lock |-> 0 - 1,
     found_counterexample |-> 0, log |-> <<>>,
     w |-> [tid \in 0..(ProgWorkers - 1) |-> ProgWorker]]

\* time passes
ProgTick ==
    /\ cpu.pc = "progress"
    /\ cpu.clock < ProgMaxClock
    /\ cpu' = [cpu EXCEPT !.clock = @ + 1]
    /\ UNCHANGED <<sv, ps, bs, gpu>>

\* "for (n = my_start; n < my_end; n++) { if (found_counterexample) break;"
ProgTop(tid) ==
    /\ cpu.pc = "progress"
    /\ cpu.w[tid].pc = "top"
    /\ cpu' = IF cpu.w[tid].left = 0 \/ cpu_sees_flag(cpu.found_counterexample)
              THEN [cpu EXCEPT !.w[tid].pc = "done"]
              ELSE [cpu EXCEPT !.w[tid].pc = "call"]
    /\ UNCHANGED <<sv, ps, bs, gpu>>

\* the call returns a solution or none; "local_progress++" and the period
\* test
ProgCall(tid) ==
    /\ cpu.pc = "progress"
    /\ cpu.w[tid].pc = "call"
    /\ \E solved \in BOOLEAN :
         cpu' = IF ~solved
                THEN [cpu EXCEPT !.w[tid].pc = "flag"]
                ELSE [cpu EXCEPT
                        !.w[tid].left = @ - 1,
                        !.w[tid].local_progress = @ + 1,
                        !.w[tid].pc =
                            IF progress_period_hit(cpu.w[tid].local_progress + 1)
                            THEN "clock" ELSE "top"]
    /\ UNCHANGED <<sv, ps, bs, gpu>>

\* "now = omp_get_wtime(); elapsed = now - start_time;"
ProgClock(tid) ==
    /\ cpu.pc = "progress"
    /\ cpu.w[tid].pc = "clock"
    /\ cpu' = [cpu EXCEPT !.w[tid].elapsed = cpu.clock, !.w[tid].pc = "test"]
    /\ UNCHANGED <<sv, ps, bs, gpu>>

\* the test outside the critical section, on the last_report_time it reads
ProgTest(tid) ==
    /\ cpu.pc = "progress"
    /\ cpu.w[tid].pc = "test"
    /\ cpu' = IF progress_due(cpu.w[tid].elapsed, cpu.last_report_time)
              THEN [cpu EXCEPT !.w[tid].pc = "enter"]
              ELSE [cpu EXCEPT !.w[tid].pc = "top"]
    /\ UNCHANGED <<sv, ps, bs, gpu>>

\* "#pragma omp critical" is entered, for a progress line or for a report
ProgEnter(tid) ==
    /\ cpu.pc = "progress"
    /\ cpu.w[tid].pc \in {"enter", "ce_enter"}
    /\ cpu.lock = 0 - 1
    /\ cpu' = [cpu EXCEPT !.lock = tid,
                          !.w[tid].pc = IF cpu.w[tid].pc = "enter"
                                        THEN "recheck" ELSE "ce_line"]
    /\ UNCHANGED <<sv, ps, bs, gpu>>

\* the test inside the critical section and the printf of the progress line
ProgRecheck(tid) ==
    /\ cpu.pc = "progress"
    /\ cpu.w[tid].pc = "recheck"
    /\ cpu' = IF progress_due_in_critical(cpu.w[tid].elapsed,
                                          cpu.last_report_time)
              THEN [cpu EXCEPT
                      !.log = Append(@, [kind |-> "progress", tid |-> tid,
                                         elapsed |-> cpu.w[tid].elapsed]),
                      !.w[tid].pc = "store"]
              ELSE [cpu EXCEPT !.lock = 0 - 1, !.w[tid].pc = "top"]
    /\ UNCHANGED <<sv, ps, bs, gpu>>

\* "last_report_time = elapsed;" and the end of the critical section
ProgStore(tid) ==
    /\ cpu.pc = "progress"
    /\ cpu.w[tid].pc = "store"
    /\ cpu' = [cpu EXCEPT !.last_report_time = cpu.w[tid].elapsed,
                          !.lock = 0 - 1, !.w[tid].pc = "top"]
    /\ UNCHANGED <<sv, ps, bs, gpu>>

\* "local_counterexamples++; found_counterexample = 1;"
ProgFlag(tid) ==
    /\ cpu.pc = "progress"
    /\ cpu.w[tid].pc = "flag"
    /\ cpu' = [cpu EXCEPT !.found_counterexample = 1,
                          !.w[tid].pc = "ce_enter"]
    /\ UNCHANGED <<sv, ps, bs, gpu>>

\* the first printf of the counterexample report
ProgReportLine(tid) ==
    /\ cpu.pc = "progress"
    /\ cpu.w[tid].pc = "ce_line"
    /\ cpu' = [cpu EXCEPT
                 !.log = Append(@, [kind |-> "ce_first", tid |-> tid,
                                    elapsed |-> 0]),
                 !.w[tid].pc = "ce_rest"]
    /\ UNCHANGED <<sv, ps, bs, gpu>>

\* the remaining printf calls of the report, the end of the critical
\* section and "break"
ProgReportRest(tid) ==
    /\ cpu.pc = "progress"
    /\ cpu.w[tid].pc = "ce_rest"
    /\ cpu' = [cpu EXCEPT
                 !.log = Append(@, [kind |-> "ce_last", tid |-> tid,
                                    elapsed |-> 0]),
                 !.lock = 0 - 1,
                 !.w[tid].pc = "done"]
    /\ UNCHANGED <<sv, ps, bs, gpu>>

InitProg ==
    /\ sv = SvIdle
    /\ ps = PsIdle
    /\ bs = BsIdle
    /\ gpu = GpuIdle
    /\ cpu = ProgStart

ProgTids == 0..(ProgWorkers - 1)

NextProg ==
    \/ ProgTick
    \/ \E tid \in ProgTids : ProgTop(tid)
    \/ \E tid \in ProgTids : ProgCall(tid)
    \/ \E tid \in ProgTids : ProgClock(tid)
    \/ \E tid \in ProgTids : ProgTest(tid)
    \/ \E tid \in ProgTids : ProgEnter(tid)
    \/ \E tid \in ProgTids : ProgRecheck(tid)
    \/ \E tid \in ProgTids : ProgStore(tid)
    \/ \E tid \in ProgTids : ProgFlag(tid)
    \/ \E tid \in ProgTids : ProgReportLine(tid)
    \/ \E tid \in ProgTids : ProgReportRest(tid)

SpecProg == InitProg /\ [][NextProg]_vars

\* the positions of the progress lines in the output
ProgLines == {k \in 1..Len(cpu.log) : cpu.log[k].kind = "progress"}

\* the progress lines whose elapsed time has been stored: all of them, but
\* for the line of a worker that is between its printf and its store
ProgStored ==
    {k \in ProgLines :
        \/ \E j \in ProgLines : j > k
        \/ \A tid \in ProgTids : cpu.w[tid].pc # "store"}

\* C25: a worker takes the clock only when its local_progress is a
\* multiple of the period; a progress line is printed only inside the
\* critical section; any two progress lines carry elapsed times at least
\* PROGRESS_SECONDS apart, in increasing order, and last_report_time is the
\* elapsed time of the last line stored (so it never decreases); no line comes between
\* the first and the last line of a counterexample report.
C25_ProgressSerialised ==
    /\ \A tid \in ProgTids :
          /\ cpu.w[tid].pc \in {"clock", "test", "enter", "recheck", "store"} =>
                /\ cpu.w[tid].local_progress > 0
                /\ cpu.w[tid].local_progress % ProgEvery = 0
          /\ cpu.w[tid].pc \in {"recheck", "store", "ce_line", "ce_rest"} <=>
                cpu.lock = tid
    /\ \A j, k \in ProgLines :
          j < k => cpu.log[k].elapsed - cpu.log[j].elapsed >= ProgSeconds
    /\ cpu.last_report_time =
          IF ProgStored = {} THEN 0
          ELSE cpu.log[CHOOSE k \in ProgStored :
                          \A j \in ProgStored : j <= k].elapsed
    /\ \A k \in 1..Len(cpu.log) :
          cpu.log[k].kind = "ce_first" =>
              \/ k = Len(cpu.log) /\ cpu.lock = cpu.log[k].tid
              \/ /\ k < Len(cpu.log)
                 /\ cpu.log[k + 1].kind = "ce_last"
                 /\ cpu.log[k + 1].tid = cpu.log[k].tid

\* two workers wanted to print for the same tick: one line was printed, the
\* other worker found the test false inside the critical section
C25_Witness ==
    /\ Cardinality(ProgLines) = 1
    /\ cpu.lock = 1
    /\ cpu.w[1].pc = "recheck"
    /\ cpu.log[1].tid = 0
    /\ cpu.last_report_time = cpu.log[1].elapsed
    /\ ~progress_due(cpu.w[1].elapsed, cpu.last_report_time)

(***************************************************************************)
(* sieve_create, step 2, with the segment tasks interleaved at the level   *)
(* of the single "bitmap[byte_idx] &= ~(1 << (bit_idx & 7))": a load of    *)
(* the byte and a store of the byte with the bit cleared.  ps.pc is "par"  *)
(* (inside the parallel loop) or "built".  ps.task[seg] holds the writes   *)
(* the task has still to do, in program order, and the byte it has loaded; *)
(* ps.wrote[seg] is the set of bytes the task has stored to and ps.cleared *)
(* the set of bits some task has cleared.                                  *)
(***************************************************************************)
\* a segment task that does not test byte_idx
segment_owns_byte_untested(byte_idx, byte_start, byte_end) == TRUE

\* "if (byte_idx >= byte_start && byte_idx < byte_end)"
segment_owns_byte(byte_idx, byte_start, byte_end) ==
    byte_idx >= byte_start /\ byte_idx < byte_end

\* "for (m = start; m <= n_end && m <= threshold; m += p)": the bits the
\* loop clears, in the order in which it clears them
RECURSIVE segment_strike_writes(_, _, _, _, _, _)
segment_strike_writes(p, m, n_end, threshold, byte_start, byte_end) ==
    IF ~(m <= n_end /\ m <= threshold) THEN <<>>
    ELSE (IF /\ wheel30_is_coprime(m)
             /\ segment_owns_byte(wheel30_bit_index(m) \div 8,
                                  byte_start, byte_end)
          THEN <<wheel30_bit_index(m)>> ELSE <<>>)
         \o segment_strike_writes(p, m + p, n_end, threshold,
                                  byte_start, byte_end)

\* the loop over the sieving primes from sieving_primes[i - 1] on
RECURSIVE segment_primes_writes(_, _, _, _, _, _, _)
segment_primes_writes(primes, i, n_start, n_end, threshold, byte_start, byte_end) ==
    IF i > Len(primes) THEN <<>>
    ELSE IF primes[i] * primes[i] > n_end THEN <<>>
    ELSE segment_strike_writes(primes[i], segment_start(primes[i], n_start),
                               n_end, threshold, byte_start, byte_end)
         \o segment_primes_writes(primes, i + 1, n_start, n_end, threshold,
                                  byte_start, byte_end)

segment_byte_start(seg) == seg * SegmentBytes

segment_byte_end(seg, thr) ==
    IF segment_byte_start(seg) + SegmentBytes > sieve_num_bytes(thr)
    THEN sieve_num_bytes(thr) ELSE segment_byte_start(seg) + SegmentBytes

\* the body of the segment loop for one seg: its writes in program order
segment_writes(seg, thr, primes) ==
    LET threshold  == sieve_threshold_of(thr)
        byte_start == segment_byte_start(seg)
        byte_end   == segment_byte_end(seg, thr)
        n_start    == byte_start * 30
        n_end0     == ((byte_end * 8) \div 8 + 1) * 30
        n_end      == IF n_end0 > threshold THEN threshold ELSE n_end0
    IN  segment_primes_writes(primes, 1, n_start, n_end, threshold,
                              byte_start, byte_end)

\* the bits of one byte of the bitmap
ByteBits(byte_idx) == (byte_idx * 8)..(byte_idx * 8 + 7)

\* sieve_create up to the parallel loop, every allocation succeeding
ParStart ==
    /\ ps.pc = "idle"
    /\ \E thr \in 0..MaxThreshold :
         ps' = [pc        |-> "par",
                threshold |-> sieve_threshold_of(thr),
                bitmap    |-> AllBits(sieve_num_bytes(thr)),
                task      |-> [seg \in 0..(sieve_num_segments(thr) - 1) |->
                                 [todo   |-> segment_writes(seg, thr,
                                                 sieving_primes_of(thr)),
                                  loaded |-> FALSE,
                                  byte   |-> {}]],
                wrote     |-> [seg \in 0..(sieve_num_segments(thr) - 1) |-> {}],
                cleared   |-> {},
                overlapped |-> FALSE]
    /\ UNCHANGED <<sv, bs, gpu, cpu>>

\* a task reads bitmap[byte_idx]
ParLoad ==
    /\ ps.pc = "par"
    /\ \E seg \in DOMAIN ps.task :
         /\ ps.task[seg].todo # <<>>
         /\ ~ps.task[seg].loaded
         /\ ps' = [ps EXCEPT
                     !.task[seg].loaded = TRUE,
                     !.task[seg].byte =
                         ps.bitmap \cap ByteBits(Head(ps.task[seg].todo) \div 8)]
    /\ UNCHANGED <<sv, bs, gpu, cpu>>

\* the task writes the byte it read, with the bit cleared
ParStore ==
    /\ ps.pc = "par"
    /\ \E seg \in DOMAIN ps.task :
         /\ ps.task[seg].loaded
         /\ LET bit_idx  == Head(ps.task[seg].todo)
                byte_idx == bit_idx \div 8
            IN  ps' = [ps EXCEPT
                         !.bitmap = (ps.bitmap \ ByteBits(byte_idx))
                                    \cup (ps.task[seg].byte \ {bit_idx}),
                         !.task[seg].todo = Tail(@),
                         !.task[seg].loaded = FALSE,
                         !.wrote[seg] = @ \cup {byte_idx},
                         !.cleared = @ \cup {bit_idx},
                         !.overlapped = ps.overlapped
                             \/ \E other \in DOMAIN ps.task :
                                   other # seg /\ ps.task[other].loaded]
    /\ UNCHANGED <<sv, bs, gpu, cpu>>

\* the end of the parallel loop: every task has finished
ParJoin ==
    /\ ps.pc = "par"
    /\ \A seg \in DOMAIN ps.task : ps.task[seg].todo = <<>>
    /\ ps' = [ps EXCEPT !.pc = "built"]
    /\ UNCHANGED <<sv, bs, gpu, cpu>>

\* sieve_destroy
ParDestroy ==
    /\ ps.pc = "built"
    /\ ps' = PsIdle
    /\ UNCHANGED <<sv, bs, gpu, cpu>>

NextPar == ParStart \/ ParLoad \/ ParStore \/ ParJoin \/ ParDestroy

SpecPar == InitSieve /\ [][NextPar]_vars

\* C26: each segment task stores only to the bytes [byte_start, byte_end)
\* of its own segment, so no two tasks store to the same byte; no cleared
\* bit is ever set again by another task's store, and once all tasks have
\* finished the bitmap is the one the segments give when processed one
\* after the other, whatever the interleaving of the loads and stores.
C26_SegmentsOwnTheirBytes ==
    ps.pc \in {"par", "built"} =>
        /\ \A seg \in DOMAIN ps.task :
              \A byte_idx \in ps.wrote[seg] :
                 /\ byte_idx >= segment_byte_start(seg)
                 /\ byte_idx < segment_byte_end(seg, ps.threshold)
        /\ \A seg, other \in DOMAIN ps.task :
              seg # other => ps.wrote[seg] \cap ps.wrote[other] = {}
        /\ ps.bitmap = AllBits(sieve_num_bytes(ps.threshold)) \ ps.cleared
        /\ ps.pc = "built" => ps.bitmap = sieve_create(ps.threshold).bitmap

\* a build of three segments in which a task stored while another task was
\* between its load and its store, and every segment was written to
C26_Witness ==
    /\ ps.pc = "built"
    /\ ps.overlapped
    /\ Cardinality(DOMAIN ps.task) >= 3
    /\ \A seg \in DOMAIN ps.task : ps.wrote[seg] # {}

(***************************************************************************)
(* The trial division prefilters as a state machine, one step for the      *)
(* seven inlined tests and one per iteration of the unrolled loop and of   *)
(* the remainder loop, for the table of search.c ("local", 30 primes) and  *)
(* the table of prime.h ("solve", 120 primes).  sv.pc is "td_inline",      *)
(* "td_loop", "td_rem" or "td_ret"; sv.reads lists the table indices read. *)
(***************************************************************************)
\* the candidates: all values up to TdMaxCandidate (beyond 661, the last
\* prime of the larger table) and a few products of two large primes
TdMaxCandidate == 700

TdCandidates ==
    (1..TdMaxCandidate)
    \cup {127 * 127, 127 * 131, 131 * 137, 661 * 661, 661 * 673, 673 * 677}

\* the table of residue_analysis.h
RESIDUE_TRIAL_PRIMES ==
    << 3, 5, 7, 11, 13, 17, 19, 23, 29, 31,
       37, 41, 43, 47, 53, 59, 61, 67, 71, 73,
       79, 83, 89, 97, 101, 103, 107, 109, 113, 127 >>

\* "for (int i = 0; i < 30; i++)" from i on
RECURSIVE residue_td_loop(_, _)
residue_td_loop(candidate, i) ==
    IF i < 30
    THEN IF candidate % RESIDUE_TRIAL_PRIMES[i + 1] = 0
         THEN (IF candidate = RESIDUE_TRIAL_PRIMES[i + 1] THEN 1 ELSE 0)
         ELSE residue_td_loop(candidate, i + 1)
    ELSE 2

residue_trial_division_check(candidate) == residue_td_loop(candidate, 0)

\* an unrolled loop that runs while "i + 3 <= num"
td_loop_guard_inclusive(i, num) == i + 3 <= num

\* "while (i + 3 < 30)", "while (i + 3 < NUM_TRIAL_PRIMES)"
td_loop_guard(i, num) == i + 3 < num

TdTable(which) == IF which = "local" THEN PRIMES ELSE TRIAL_PRIMES

TdNum(which) == IF which = "local" THEN NUM_PRIMES_LOCAL ELSE NUM_TRIAL_PRIMES

\* what a read of table[i] gives: past the table, whatever lies there
TdRead(which, i, past) ==
    IF i < TdNum(which) THEN TdTable(which)[i + 1] ELSE past

\* the tests of one iteration of the unrolled loop, from the k-th on: the
\* value returned (2: none) and the indices read
RECURSIVE td_loop_body(_, _, _, _, _)
td_loop_body(candidate, which, i, k, past) ==
    IF k >= 4 THEN [ret |-> 2, reads |-> <<>>]
    ELSE IF td_test(candidate, TdRead(which, i + k, past)) # 2
         THEN [ret |-> td_test(candidate, TdRead(which, i + k, past)),
               reads |-> <<i + k>>]
         ELSE LET rest == td_loop_body(candidate, which, i, k + 1, past)
              IN  [ret |-> rest.ret, reads |-> <<i + k>> \o rest.reads]

TdCall ==
    /\ sv.pc = "idle"
    /\ \E candidate \in TdCandidates, which \in {"local", "solve"} :
         sv' = [pc |-> "td_inline", candidate |-> candidate, which |-> which,
                i |-> 0, reads |-> <<>>, ret |-> 2]
    /\ UNCHANGED <<ps, bs, gpu, cpu>>

\* the seven inlined tests and "int i = 7;"
TdInline ==
    /\ sv.pc = "td_inline"
    /\ LET r == td_inline(sv.candidate, <<3, 5, 7, 11, 13, 17, 19>>, 0)
       IN  sv' = IF r # 2
                 THEN [sv EXCEPT !.pc = "td_ret", !.ret = r]
                 ELSE [sv EXCEPT !.pc = "td_loop", !.i = 7]
    /\ UNCHANGED <<ps, bs, gpu, cpu>>

\* one iteration of the 4x unrolled loop, or its exit
TdLoop ==
    /\ sv.pc = "td_loop"
    /\ \E past \in {1, 2} :
         LET body == td_loop_body(sv.candidate, sv.which, sv.i, 0, past)
         IN  sv' = IF ~td_loop_guard(sv.i, TdNum(sv.which))
                   THEN [sv EXCEPT !.pc = "td_rem"]
                   ELSE IF body.ret # 2
                   THEN [sv EXCEPT !.pc = "td_ret", !.ret = body.ret,
                                   !.reads = @ \o body.reads]
                   ELSE [sv EXCEPT !.i = @ + 4, !.reads = @ \o body.reads]
    /\ UNCHANGED <<ps, bs, gpu, cpu>>

\* one iteration of the remainder loop, or "return 2;"
TdRem ==
    /\ sv.pc = "td_rem"
    /\ sv' = IF ~(sv.i < TdNum(sv.which))
             THEN [sv EXCEPT !.pc = "td_ret", !.ret = 2]
             ELSE IF td_test(sv.candidate, TdTable(sv.which)[sv.i + 1]) # 2
             THEN [sv EXCEPT
                     !.pc = "td_ret",
                     !.ret = td_test(sv.candidate, TdTable(sv.which)[sv.i + 1]),
                     !.reads = Append(@, sv.i)]
             ELSE [sv EXCEPT !.i = @ + 1, !.reads = Append(@, sv.i)]
    /\ UNCHANGED <<ps, bs, gpu, cpu>>

TdReturn ==
    /\ sv.pc = "td_ret"
    /\ sv' = SvIdle
    /\ UNCHANGED <<ps, bs, gpu, cpu>>

NextTd == TdCall \/ TdInline \/ TdLoop \/ TdRem \/ TdReturn

SpecTd == InitSolve /\ [][NextTd]_vars

\* the primes of a table
TdListed(which) == {TdTable(which)[k] : k \in 1..TdNum(which)}

\* C28: on every candidate >= 1 trial_division_check_local returns what
\* the straight loop residue_trial_division_check returns: 0 iff the
\* candidate is a proper multiple of a listed prime, 1 iff it is a listed
\* prime, 2 otherwise; the unrolled loop and the remainder loop read the
\* table entries 7, 8, ... in order, each once, never past the end of the
\* table, and all of them when 2 is returned - for the table of 30 and for
\* the table of 120 primes.
C28_PrefiltersAgree ==
    sv.pc \in {"td_inline", "td_loop", "td_rem", "td_ret"} =>
        /\ \A k \in 1..Len(sv.reads) :
              sv.reads[k] = 6 + k /\ sv.reads[k] < TdNum(sv.which)
        /\ sv.pc = "td_ret" =>
              /\ sv.ret = td_check(sv.candidate, TdTable(sv.which),
                                   TdNum(sv.which))
              /\ sv.ret = 0 <=> \E q \in TdListed(sv.which) :
                                   sv.candidate % q = 0 /\ sv.candidate # q
              /\ sv.ret = 1 <=> sv.candidate \in TdListed(sv.which)
              /\ sv.ret \in {0, 1, 2}
              /\ sv.ret = 2 => Len(sv.reads) = TdNum(sv.which) - 7
              /\ sv.which = "local" =>
                    /\ sv.ret = trial_division_check_local(sv.candidate)
                    /\ sv.ret = residue_trial_division_check(sv.candidate)

\* the last prime of the table of 30, found by the remainder loop after
\* every other entry was read
C28_Witness ==
    /\ sv.pc = "td_ret"
    /\ sv.which = "local"
    /\ sv.candidate = 127
    /\ sv.ret = 1
    /\ sv.reads[Len(sv.reads)] = 29
    /\ Len(sv.reads) = 23

(***************************************************************************)
(* The per-n solver and the batched verifier side by side: search and      *)
(* search_batched are two programs, one of them runs at a time.            *)
(***************************************************************************)
NextEither ==
    \/ bs.pc = "idle" /\ NextSolve
    \/ sv.pc = "idle" /\ NextBatchedAll

SpecEither == InitSolve /\ [][NextEither]_vars

\* C30: every candidate the solver hands to its primality test and every
\* candidate batch_check_remaining hands to the oracle is = 1 (mod 4), so
\* odd; for N = 8n + 3 and every odd a with a*a < N, N - a*a is even and
\* (N - a*a) / 2 = 1 (mod 4).
C30_CandidatesAreOneModFour ==
    /\ (sv.pc = "walk" /\ sv.w.candidate >= 2) =>
          /\ sv.w.candidate % 4 = 1
          /\ sv.w.a % 2 = 1
    /\ sv.pc = "walk" =>
          \A a \in 1..sv.a_max :
             (a % 2 = 1 /\ a * a < 8 * sv.n + 3) =>
                 /\ (8 * sv.n + 3 - a * a) % 2 = 0
                 /\ ((8 * sv.n + 3 - a * a) \div 2) % 4 = 1
    /\ bs.pc = "check" =>
          /\ bs.a % 2 = 1
          /\ \A idx \in 0..(bs.b.batch_size - 1) :
                batch_tested(bs.b, bs.a, idx) =>
                    batch_candidate(bs.b, bs.a, idx) % 4 = 1

\* the solver in its loop, past the first a, on a candidate it tests
C30_Witness ==
    /\ sv.pc = "walk"
    /\ sv.n = 5
    /\ sv.w.a = 3
    /\ sv.w.candidate = 17

====
